---------------------------- MODULE Spec2Model ----------------------------
(***************************************************************************)
(* Model of the text-recovery index library: the Damerau-Levenshtein       *)
(* edit-distance kernel (src/lib/bk_tree/edit_distance.cpp), the BK-tree   *)
(* (src/lib/bk_tree/bk_tree_node.cpp), the Trie (src/lib/trie) and the     *)
(* builder of the two indexes (src/data_preparation/tree_builder.cpp).     *)
(*                                                                         *)
(* A C++ char is modelled by its ASCII code ('a' = 97 .. 'z' = 122,        *)
(* '*' = 42) and a std::string by the sequence of its codes.               *)
(***************************************************************************)
EXTENDS Integers, Sequences, FiniteSets, Bags, TLC

VARIABLES
    a, b, dist, edDone,             \* edit-distance kernel: the two arguments, the value returned, whether it has returned
    bk, bkCount, bkOp, bkWord, query, tolerance, results, stream, reloaded,
                                    \* BK-tree: the tree, the number of insert calls, the last operation with
                                    \* its arguments and result, the bytes written, the tree read back
    trie, trieOp, trieWord, found, inserted,
                                    \* Trie: the tree, the last operation, its argument/result, the words inserted so far
    startPos, endings, matches, lookups, wasStored
                                    \* Trie: the offset given to getValidEndings and the list it returned, the list
                                    \* collectMatches returned, the characters the last pattern query passed to
                                    \* TrieNode::hasChild, whether the word of the last insert was stored before it
VARIABLES
    file, words, stage, outputs     \* TreeBuilder: the bytes of the word list file, the vector words, how far
                                    \* main has come with the builder, the output files written

VARIABLES
    walkNode, walkSteps, walkPc     \* BKTreeNode::insert: the node the walk is at, the distances it has computed,
                                    \* whether a call is under way

VARIABLES
    prob, context_map,              \* a WordProb and the context_map of a WordContextAnalyzer
    probOp, probRet, probCount      \* the last operation on them, what it returned, the writes made so far

VARIABLES
    argv, args,                     \* prepare_data: the command line and the member args of the parser
    cliPc, exitCode, cliErr,        \* how far main has come, its exit status, the error message it printed
    usageShown,                     \* whether it printed the usage
    cliSteps                        \* the steps main took, in the order it took them

vars == <<a, b, dist, edDone, bk, bkCount, bkOp, bkWord, query, tolerance, results, stream, reloaded,
          trie, trieOp, trieWord, found, inserted, startPos, endings, matches, lookups, wasStored,
          file, words, stage, outputs,
          walkNode, walkSteps, walkPc,
          prob, context_map, probOp, probRet, probCount,
          argv, args, cliPc, exitCode, cliErr, usageShown, cliSteps>>

edVars == <<a, b, dist, edDone>>
bkVars == <<bk, bkCount, bkOp, bkWord, query, tolerance, results, stream, reloaded>>
trieVars == <<trie, trieOp, trieWord, found, inserted, startPos, endings, matches, lookups, wasStored>>
buildVars == <<file, words, stage, outputs>>
walkVars == <<walkNode, walkSteps, walkPc>>
cliVars == <<argv, args, cliPc, exitCode, cliErr, usageShown, cliSteps>>
probVars == <<prob, context_map, probOp, probRet, probCount>>

---------------------------------------------------------------------------
(* Characters and strings *)

CH_a == 97
CH_z == 122
CH_STAR == 42

\* Bound of the edit-distance checks: strings of at most EDMaxLen characters.
EDMaxLen == 3

\* The strings over the character set S of length at most n.
StringsUpTo(S, n) == UNION {[1..k -> S] : k \in 0..n}

Min(x, y) == IF x <= y THEN x ELSE y

---------------------------------------------------------------------------
(* EditDistance (src/lib/bk_tree/edit_distance.cpp) *)

ALPHABET_SIZE == 27

\* What an operator yields where the code reads or writes outside an object,
\* or through a null pointer: the behaviour is undefined, the call may end
\* the process or go on with any value, and no value can be named for it.
UNDEFINED == "undefined behaviour"

charToIndex(c) ==
    IF c >= CH_a /\ c <= CH_z THEN c - CH_a
    ELSE IF c = CH_STAR THEN ALPHABET_SIZE - 1
    ELSE -1

\* std::vector<int> da(ALPHABET_SIZE, 0)
InitDa == [x \in 0..(ALPHABET_SIZE - 1) |-> 0]

\* The matrix d after the two border loops (lines 66-80); cells no loop
\* writes keep the 0 the vector constructor gives them.
InitMatrix(len_a, len_b) ==
    LET maxdist == len_a + len_b
    IN  [i \in 0..(len_a + 1) |->
            [j \in 0..(len_b + 1) |->
                IF i = 0 \/ j = 0 THEN maxdist
                ELSE IF i = 1 THEN j - 1
                ELSE IF j = 1 THEN i - 1
                ELSE 0]]

\* Mutant: only a wildcard in the first string compares at no cost.
ZeroCostRowWildcardOnly(x, y) == (x = y) \/ (x = CH_STAR)

\* The test of line 92: equal characters, or a wildcard on either side.
ZeroCost(x, y) == (x = y) \/ (x = CH_STAR) \/ (y = CH_STAR)

\* Mutant: a transposition is taken only between the two characters just
\* before (i, j), which is the optimal-string-alignment recurrence.
TranspositionAdjacentOnly(d, i, j, k, l) ==
    IF k = i - 1 /\ l = j - 1 THEN d[k][l] + 1 ELSE d[0][0]

\* Mutant: the characters skipped in the second string are not charged.
TranspositionNoColumnGap(d, i, j, k, l) == d[k][l] + (i - k - 1) + 1

\* Line 106: the transposition candidate.
Transposition(d, i, j, k, l) == d[k][l] + (i - k - 1) + 1 + (j - l - 1)

\* Lines 102-107: the value of cell d[i+1][j+1].
CellValue(d, i, j, k, l, cost) ==
    Min(Min(d[i][j] + cost, d[i + 1][j] + 1),
        Min(d[i][j + 1] + 1, Transposition(d, i, j, k, l)))

\* The index charToIndex gives for c lies inside the vector da, which has
\* ALPHABET_SIZE elements from its construction on (line 62).  For a
\* character outside a..z and '*' it is -1, and da[-1] is outside the vector.
InDa(c) == charToIndex(c) \in 0..(ALPHABET_SIZE - 1)

\* Line 110: da[charToIndex(a[i - 1])] = i; a write outside the vector is
\* undefined behaviour.
UpdateDa(da, c, i) ==
    IF InDa(c) THEN [da EXCEPT ![charToIndex(c)] = i] ELSE UNDEFINED

\* The inner loop (lines 86-108) from column j on, for row i.  Line 88 reads
\* da[charToIndex(b[j - 1])]; a read outside the vector is undefined
\* behaviour.
RECURSIVE ColumnLoop(_, _, _, _, _, _, _)
ColumnLoop(s, t, i, j, d, da, db) ==
    IF j > Len(t) THEN d
    ELSE IF ~InDa(t[j]) THEN UNDEFINED
    ELSE LET k == da[charToIndex(t[j])]
             l == db
             zero == ZeroCost(s[i], t[j])
             cost == IF zero THEN 0 ELSE 1
             v == CellValue(d, i, j, k, l, cost)
         IN  ColumnLoop(s, t, i, j + 1,
                        [d EXCEPT ![i + 1][j + 1] = v], da,
                        IF zero THEN j ELSE db)

\* The outer loop (lines 82-111) from row i on.  A row whose inner loop or
\* whose write to da leaves the vector makes the whole call undefined.
RECURSIVE RowLoop(_, _, _, _, _)
RowLoop(s, t, i, d, da) ==
    IF i > Len(s) THEN d
    ELSE IF (\E j \in 1..Len(t) : ~InDa(t[j])) \/ ~InDa(s[i]) THEN UNDEFINED
    ELSE RowLoop(s, t, i + 1, ColumnLoop(s, t, i, 1, d, da, 0),
                 UpdateDa(da, s[i], i))

\* Every access to da the call makes stays inside the vector: the rows read
\* da at each character of t and write it at their own character of s, so
\* with s empty nothing is accessed.
DaInBounds(s, t) ==
    s = <<>> \/ ((\A i \in 1..Len(s) : InDa(s[i])) /\ (\A j \in 1..Len(t) : InDa(t[j])))

editDistance(s, t) ==
    IF DaInBounds(s, t)
    THEN RowLoop(s, t, 1, InitMatrix(Len(s), Len(t)), InitDa)[Len(s) + 1][Len(t) + 1]
    ELSE UNDEFINED

---------------------------------------------------------------------------
(* Edit-distance specification: the arguments are drawn from the bounded   *)
(* strings and the kernel is applied to them.                              *)

CH_b == 98
CH_c == 99

EDAlphabet == {CH_a, CH_b, CH_c}
\* Wildcard-free strings, and strings that may hold the wildcard.
EDWords == StringsUpTo(EDAlphabet, EDMaxLen)
EDStrings == StringsUpTo(EDAlphabet \cup {CH_STAR}, EDMaxLen)

NoStar(s) == \A i \in 1..Len(s) : s[i] # CH_STAR

\* The state of each component after construction.
EmptyTree == [p \in {} |-> <<>>]

InitEDIdle == a = <<>> /\ b = <<>> /\ dist = 0 /\ edDone = FALSE

InitBK ==
    /\ bk = EmptyTree /\ bkCount = 0 /\ bkOp = "none" /\ bkWord = <<>>
    /\ query = <<>> /\ tolerance = 0 /\ results = EmptyBag
    /\ stream = <<>> /\ reloaded = EmptyTree

\* Trie::Trie(): a root node that ends no word and has no children.
InitTrie ==
    /\ trie = (<<>> :> [is_end_of_word |-> FALSE, number_of_children |-> 0])
    /\ trieOp = "none" /\ trieWord = <<>> /\ found = FALSE /\ inserted = {}
    /\ startPos = 0 /\ endings = <<>> /\ matches = <<>> /\ lookups = {} /\ wasStored = FALSE

\* TreeBuilder::TreeBuilder(): no words; no word list is at hand.
InitWalkIdle == walkNode = <<>> /\ walkSteps = 0 /\ walkPc = "idle"

InitProbIdle == prob = [before |-> <<>>, after |-> <<>>] /\ context_map = <<>> /\ probOp = [name |-> "none"] /\ probRet = 0 /\ probCount = 0

InitCliIdle == argv = <<>> /\ args = <<>> /\ cliPc = "none" /\ exitCode = 0 /\ cliErr = "" /\ usageShown = FALSE /\ cliSteps = <<>>

InitBuildIdle == file = <<>> /\ words = <<>> /\ stage = "constructed" /\ outputs = {}

InitED ==
    /\ a \in EDStrings
    /\ b \in EDStrings
    /\ dist = 0
    /\ edDone = FALSE
    /\ InitBK
    /\ InitTrie
    /\ InitBuildIdle
    /\ InitWalkIdle
    /\ InitProbIdle
    /\ InitCliIdle

\* One call editDistance(a, b).
ComputeDistance ==
    /\ ~edDone
    /\ dist' = editDistance(a, b)
    /\ edDone' = TRUE
    /\ UNCHANGED <<a, b, bkVars, trieVars, buildVars, walkVars, probVars, cliVars>>

NextED == ComputeDistance

SpecED == InitED /\ [][NextED]_vars

---------------------------------------------------------------------------
(* The Damerau-Levenshtein distance by its definition: the least number of *)
(* single edits (insert a letter, delete a letter, replace a letter, swap  *)
(* two adjacent letters) that turn one string into the other.  A shortest  *)
(* edit sequence can delete first and insert last, so it never leaves the  *)
(* strings no longer than the longer of its two ends.                      *)

RemoveAt(s, i) == SubSeq(s, 1, i - 1) \o SubSeq(s, i + 1, Len(s))
InsertAt(s, i, c) == SubSeq(s, 1, i) \o <<c>> \o SubSeq(s, i + 1, Len(s))
SwapAt(s, i) == [s EXCEPT ![i] = s[i + 1], ![i + 1] = s[i]]

OneEdit(s) ==
    {RemoveAt(s, i) : i \in 1..Len(s)}
    \cup (IF Len(s) < EDMaxLen
          THEN {InsertAt(s, p[1], p[2]) : p \in (0..Len(s)) \X EDAlphabet}
          ELSE {})
    \cup {[s EXCEPT ![p[1]] = p[2]] : p \in (1..Len(s)) \X EDAlphabet}
    \cup {SwapAt(s, i) : i \in 1..(Len(s) - 1)}

\* Breadth-first search: acc maps every string reached so far to its depth.
RECURSIVE EditLevels(_, _, _)
EditLevels(frontier, n, acc) ==
    IF frontier = {} THEN acc
    ELSE LET acc2 == acc @@ [s \in frontier |-> n]
             next == (UNION {OneEdit(s) : s \in frontier}) \ DOMAIN acc2
         IN  EditLevels(next, n + 1, acc2)

TrueDL == [s \in EDWords |-> EditLevels({s}, 0, <<>>)]

\* Strings used by the examples of the specification.
Str_ca == <<99, 97>>
Str_ac == <<97, 99>>
Str_abc == <<97, 98, 99>>
Str_kitten == <<107, 105, 116, 116, 101, 110>>
Str_sitting == <<115, 105, 116, 116, 105, 110, 103>>
KittenSitting == editDistance(Str_kitten, Str_sitting)

\* C1: on wildcard-free strings the value editDistance returns is the true
\* Damerau-Levenshtein distance (least number of single edits, adjacent
\* transposition included); editDistance("", s) = |s|,
\* editDistance("ca", "abc") = 2 and editDistance("kitten", "sitting") = 3.
C1_TrueDamerauLevenshtein ==
    /\ (edDone /\ NoStar(a) /\ NoStar(b)) =>
          /\ dist = TrueDL[a][b]
          /\ (a = <<>> => dist = Len(b))
          /\ ((a = Str_ca /\ b = Str_abc) => dist = 2)
    /\ KittenSitting = 3

\* C1 witness: the kernel has returned 2 for ("ca", "abc"), the pair on which
\* the optimal-string-alignment distance is 3.
C1_Witness == edDone /\ a = Str_ca /\ b = Str_abc /\ dist = 2

\* A number for every bounded wildcard-free string (its letters as the digits
\* 1, 2, 3 of a base-4 numeral), and the kernel's value on every pair of
\* them: KernelTable[Code(s)][Code(t)] = editDistance(s, t).
RECURSIVE Code(_)
Code(s) == IF s = <<>> THEN 0 ELSE (s[1] - CH_a + 1) + 4 * Code(Tail(s))

WordCodes == {Code(s) : s \in EDWords}
WordOfCode == [n \in WordCodes |-> CHOOSE s \in EDWords : Code(s) = n]
KernelTable ==
    [i \in 0..(4 ^ EDMaxLen) |->
        [j \in 0..(4 ^ EDMaxLen) |->
            IF i \in WordCodes /\ j \in WordCodes
            THEN editDistance(WordOfCode[i], WordOfCode[j])
            ELSE 0]]

\* C4: triangle inequality on wildcard-free strings: for the pair (a, b) the
\* kernel was applied to and every wildcard-free y,
\* editDistance(a, b) <= editDistance(a, y) + editDistance(y, b).
C4_TriangleInequality ==
    (edDone /\ NoStar(a) /\ NoStar(b)) =>
        LET ia == Code(a)
            ib == Code(b)
        IN  \A y \in WordCodes :
                dist <= KernelTable[ia][y] + KernelTable[y][ib]

\* C4 witness: the triple ("ca", "ac", "abc") with distances 2 <= 1 + 1, where
\* the bound is tight.
C4_Witness ==
    /\ edDone /\ a = Str_ca /\ b = Str_abc
    /\ dist = editDistance(a, Str_ac) + editDistance(Str_ac, b)

\* C10: symmetry on wildcard-free strings: the value returned for (a, b) is
\* the value the kernel returns for (b, a).
C10_Symmetry ==
    (edDone /\ NoStar(a) /\ NoStar(b)) => dist = editDistance(b, a)

\* C10 witness: two different wildcard-free strings of different lengths at a
\* positive distance, compared in both directions.
C10_Witness ==
    /\ edDone /\ NoStar(a) /\ NoStar(b) /\ Len(a) < Len(b) /\ a # <<>>
    /\ dist > 1 /\ dist = editDistance(b, a)

HasStar(s) == ~NoStar(s)

\* C11: symmetry with wildcards: for all strings over the letters and '*',
\* wildcards in either or both arguments, the value returned for (a, b) is
\* the value the kernel returns for (b, a).
C11_SymmetryWithWildcards ==
    edDone => dist = editDistance(b, a)

\* C11 witness: a string with a wildcard compared with a longer wildcard-free
\* string at a positive distance, the same in both directions.
C11_Witness ==
    /\ edDone /\ HasStar(a) /\ NoStar(b) /\ Len(a) = 2 /\ Len(b) = 3
    /\ dist > 1 /\ dist = editDistance(b, a)

\* Two strings of equal length that agree at every position up to wildcards.
AgreeUpToWildcards(s, t) ==
    /\ Len(s) = Len(t)
    /\ \A i \in 1..Len(s) : s[i] = t[i] \/ s[i] = CH_STAR \/ t[i] = CH_STAR

Str_cStarT == <<99, 42, 116>>
Str_cat == <<99, 97, 116>>
CStarTCat == editDistance(Str_cStarT, Str_cat)

\* C12: strings of equal length that agree at every position up to wildcards
\* are at distance 0; in particular editDistance(a, a) = 0 and
\* editDistance("c*t", "cat") = 0.
C12_ZeroOnWildcardAgreement ==
    /\ (edDone /\ AgreeUpToWildcards(a, b)) => dist = 0
    /\ (edDone /\ a = b) => dist = 0
    /\ CStarTCat = 0

\* C12 witness: two different strings of full length, the wildcard in the
\* second one only, compared at distance 0.
C12_Witness ==
    /\ edDone /\ AgreeUpToWildcards(a, b) /\ a # b /\ Len(a) = EDMaxLen
    /\ NoStar(a) /\ HasStar(b) /\ dist = 0



---------------------------------------------------------------------------
(* BKTreeNode (src/lib/bk_tree/bk_tree_node.cpp).  A tree is a function     *)
(* from paths to words: the root is the empty path, and the child a node n  *)
(* holds under key d in its children map is the path Append(n, d).          *)

\* Bounds of the BK-tree checks: insert calls per run, ordinary tolerances,
\* and the width of int / unsigned int in the arithmetic of find (32 in the
\* build; the model keeps the wrap-around at a width TLC's integers can hold).
MaxNodes == 3
MaxTol == 2
UIntBits == 16

UIntModulus == 2 ^ UIntBits
UINT_MAX == UIntModulus - 1
INT_MAX == (2 ^ (UIntBits - 1)) - 1

\* Conversion of an int to unsigned int, and of an unsigned int to int.
ToUnsigned(x) == x % UIntModulus
ToInt(u) == IF u > INT_MAX THEN u - UIntModulus ELSE u

Root == <<>>
Words(tree) == {tree[n] : n \in DOMAIN tree}
ChildKeys(tree, n) ==
    {p[Len(p)] : p \in {x \in DOMAIN tree : Len(x) = Len(n) + 1 /\ SubSeq(x, 1, Len(n)) = n}}

hasChild(tree, n, distance) == Append(n, distance) \in DOMAIN tree

getChild(n, distance) == Append(n, distance)

\* Lines 46-49: this->word = word, at node n.
setWord(tree, n, word) == [tree EXCEPT ![n] = word]

\* Lines 82-89: a new node with an empty word is put under the key, then its
\* word is set.
addChild(tree, n, distance, word) ==
    IF ~hasChild(tree, n, distance)
    THEN setWord((Append(n, distance) :> <<>>) @@ tree, Append(n, distance), word)
    ELSE tree

\* Mutant: the distance is always taken to the word of the node insert was
\* called on, not to the node the walk has reached.
InsertDistanceToRoot(tree, n, word) == editDistance(word, tree[Root])

\* Line 102: int distance = editDistance(word, node->getWord())
InsertDistance(tree, n, word) == editDistance(word, tree[n])

\* The loop of insert (lines 100-111), with node = n.  Where the distance of
\* line 102 is undefined, so is the insert.
RECURSIVE insert(_, _, _)
insert(tree, n, word) ==
    IF ~DaInBounds(word, tree[n]) THEN UNDEFINED
    ELSE LET distance == InsertDistance(tree, n, word)
         IN  IF ~hasChild(tree, n, distance)
             THEN addChild(tree, n, distance, word)
             ELSE insert(tree, getChild(n, distance), word)

\* Mutant: the lower end of the window is the distance itself.
MinDistNoTolerance(distance, tol) == distance

\* Line 131: int min_dist = distance - tolerance (unsigned arithmetic, then
\* converted to int).
MinDist(distance, tol) == ToInt(ToUnsigned(ToUnsigned(distance) - tol))

\* Line 132: int max_dist = distance + tolerance
MaxDist(distance, tol) == ToInt(ToUnsigned(ToUnsigned(distance) + tol))

\* Line 126: distance <= tolerance, compared as unsigned int.
WithinTolerance(distance, tol) == ToUnsigned(distance) <= tol

\* The distance of line 124 is defined at node n and at every node the
\* recursion of lines 134-140 reaches from it.  It is so at once where the
\* query and every word of the tree keep editDistance inside its vector.
RECURSIVE FindInBounds(_, _, _, _)
FindInBounds(tree, n, q, tol) ==
    \/ \A m \in DOMAIN tree : DaInBounds(q, tree[m])
    \/ /\ DaInBounds(q, tree[n])
       /\ LET distance == editDistance(q, tree[n])
          IN  \A k \in ChildKeys(tree, n) :
                  (k >= MinDist(distance, tol) /\ k <= MaxDist(distance, tol)) =>
                      FindInBounds(tree, getChild(n, k), q, tol)

\* find (lines 121-141) at node n; the list pushed to results is kept as a
\* bag, since the order in which the children map is iterated is unspecified.
\* Where a distance it needs is undefined, so is the find.
RECURSIVE find(_, _, _, _)
RECURSIVE FindChildren(_, _, _, _, _, _)
find(tree, n, q, tol) ==
    IF ~FindInBounds(tree, n, q, tol) THEN UNDEFINED
    ELSE LET distance == editDistance(q, tree[n])
             own == IF WithinTolerance(distance, tol) THEN SetToBag({tree[n]}) ELSE EmptyBag
         IN  own (+) FindChildren(tree, n, q, tol, distance, ChildKeys(tree, n))

FindChildren(tree, n, q, tol, distance, keys) ==
    IF keys = {} THEN EmptyBag
    ELSE LET k == CHOOSE x \in keys : TRUE
             sub == IF k >= MinDist(distance, tol) /\ k <= MaxDist(distance, tol)
                    THEN find(tree, getChild(n, k), q, tol)
                    ELSE EmptyBag
         IN  sub (+) FindChildren(tree, n, q, tol, distance, keys \ {k})

(* The byte stream (lines 148-203).  unsigned int is written as 4 bytes and *)
(* unsigned short as 2 bytes, least significant byte first.                 *)

U32Bytes(x) == <<x % 256, (x \div 256) % 256, (x \div 65536) % 256, (x \div 16777216) % 256>>
U16Bytes(x) == <<x % 256, (x \div 256) % 256>>
U32At(bytes, pos) ==
    bytes[pos] + 256 * bytes[pos + 1] + 65536 * bytes[pos + 2] + 16777216 * bytes[pos + 3]
U16At(bytes, pos) == bytes[pos] + 256 * bytes[pos + 1]

\* Line 165: static_cast<unsigned short>(it.first)
ToUShort(x) == x % 65536

\* serialize at node n.  Each node iterates its own unordered children map
\* (line 162), so order gives every node with more than one child a ranking
\* of the keys of its own: order[n] stands for the order in which the map of
\* node n happens to be iterated, and two nodes with the same keys may be
\* written in different orders.
RECURSIVE serialize(_, _, _)
RECURSIVE SerializeChildren(_, _, _, _)
serialize(tree, n, order) ==
    U32Bytes(Len(tree[n])) \o tree[n]
        \o U32Bytes(Cardinality(ChildKeys(tree, n)))
        \o SerializeChildren(tree, n, order, ChildKeys(tree, n))

\* The loop of lines 162-170 over the keys of node n still to be written.
SerializeChildren(tree, n, order, keys) ==
    IF keys = {} THEN <<>>
    ELSE LET k == IF Cardinality(keys) = 1 THEN CHOOSE x \in keys : TRUE
                  ELSE CHOOSE x \in keys : \A y \in keys : order[n][x] <= order[n][y]
         IN  U16Bytes(ToUShort(k)) \o serialize(tree, getChild(n, k), order)
                \o SerializeChildren(tree, n, order, keys \ {k})

\* The nodes of tree outside the subtree at path n.
WithoutSubtree(tree, n) ==
    [p \in {x \in DOMAIN tree : ~(Len(x) >= Len(n) /\ SubSeq(x, 1, Len(n)) = n)} |-> tree[p]]

\* Mutant: the child is stored under the loop counter, not under the key read.
ChildSlotByIndex(distance, i) == i

\* Line 200: this->children[distance]; i is the loop counter of line 193.
ChildSlot(distance, i) == distance

\* deserialize into the node at path n, reading from position pos; gives the
\* subtree read and the position after it.
RECURSIVE deserialize(_, _, _)
RECURSIVE DeserializeChildren(_, _, _, _, _, _)
deserialize(bytes, pos, n) ==
    LET word_len == U32At(bytes, pos)
        word == SubSeq(bytes, pos + 4, pos + 3 + word_len)
        num_children == U32At(bytes, pos + 4 + word_len)
    IN  DeserializeChildren(bytes, pos + 8 + word_len, n, 0, num_children, (n :> word))

DeserializeChildren(bytes, pos, n, i, num_children, acc) ==
    IF i >= num_children THEN [tree |-> acc, pos |-> pos]
    ELSE LET distance == U16At(bytes, pos)
             slot == getChild(n, ChildSlot(distance, i))
             child == deserialize(bytes, pos + 2, slot)
         IN  DeserializeChildren(bytes, child.pos, n, i + 1, num_children,
                                 child.tree @@ WithoutSubtree(acc, slot))

(* BKTree (src/lib/bk_tree/bk_tree.h): the container that owns the root.    *)
(* The first word inserted becomes the word of the root; every later insert *)
(* and every find is the root node's.                                       *)

BKTree_insert(tree, word) ==
    IF DOMAIN tree = {} THEN (Root :> word) ELSE insert(tree, Root, word)

BKTree_find(tree, q, tol) ==
    IF DOMAIN tree = {} THEN EmptyBag ELSE find(tree, Root, q, tol)

---------------------------------------------------------------------------
(* BK-tree specification *)

BKAlphabet == {CH_a, CH_b}
\* Stored words: every string over a, b of at most two letters.  Queries may
\* hold the wildcard as well.
BKWords == StringsUpTo(BKAlphabet, 2)
BKQueries == StringsUpTo(BKAlphabet \cup {CH_STAR}, 2)
\* Tolerances: the ordinary ones and the ones at the ends of the int and
\* unsigned int ranges.
Tolerances == (0..MaxTol) \cup {INT_MAX - 1, INT_MAX, UINT_MAX}
\* The orders in which one children map may be iterated: every ranking of the
\* keys; NodeOrders gives each node of a tree that has more than one child
\* one of them.
KeyRange == 0..2
Orders == {f \in [KeyRange -> KeyRange] : \A x, y \in KeyRange : f[x] = f[y] => x = y}
Branching(tree) == {n \in DOMAIN tree : Cardinality(ChildKeys(tree, n)) > 1}
NodeOrders(tree) == [Branching(tree) -> Orders]

Written == stream # <<>>
Loaded == DOMAIN reloaded # {}
\* The tree a find is run on: the one read back once there is one.
Target == IF Loaded THEN reloaded ELSE bk

\* A find leaves the tree as it is, so a run ends with its find: every state
\* a longer run reaches is reached by the run without that find.
Open == bkOp # "find"

InitBKSpec == InitEDIdle /\ InitBK /\ InitTrie /\ InitBuildIdle /\ InitWalkIdle /\ InitProbIdle /\ InitCliIdle

BKInsert(w) ==
    /\ Open
    /\ ~Written
    /\ bkCount < MaxNodes
    /\ bk' = BKTree_insert(bk, w)
    /\ bkCount' = bkCount + 1
    /\ bkOp' = "insert"
    /\ bkWord' = w
    /\ query' = <<>> /\ tolerance' = 0 /\ results' = EmptyBag
    /\ UNCHANGED <<stream, reloaded, edVars, trieVars, buildVars, walkVars, probVars, cliVars>>

BKFind(q, tol) ==
    /\ Open
    /\ Written => Loaded
    /\ results' = BKTree_find(Target, q, tol)
    /\ query' = q
    /\ tolerance' = tol
    /\ bkOp' = "find"
    /\ bkWord' = <<>>
    /\ UNCHANGED <<bk, bkCount, stream, reloaded, edVars, trieVars, buildVars, walkVars, probVars, cliVars>>

BKSerialize(order) ==
    /\ Open
    /\ DOMAIN bk # {}
    /\ ~Written
    /\ stream' = serialize(bk, Root, order)
    /\ bkOp' = "serialize"
    /\ bkWord' = <<>> /\ query' = <<>> /\ tolerance' = 0 /\ results' = EmptyBag
    /\ UNCHANGED <<bk, bkCount, reloaded, edVars, trieVars, buildVars, walkVars, probVars, cliVars>>

BKDeserialize ==
    /\ Written
    /\ ~Loaded
    /\ reloaded' = deserialize(stream, 1, Root).tree
    /\ bkOp' = "deserialize"
    /\ UNCHANGED <<bk, bkCount, bkWord, query, tolerance, results, stream, edVars, trieVars, buildVars, walkVars, probVars, cliVars>>

NextBK ==
    \/ \E w \in BKWords : BKInsert(w)
    \/ \E q \in BKQueries, tol \in Tolerances : BKFind(q, tol)
    \/ \E order \in NodeOrders(bk) : BKSerialize(order)
    \/ BKDeserialize

SpecBK == InitBKSpec /\ [][NextBK]_vars

---------------------------------------------------------------------------
(* BK-tree properties *)

Parent(p) == SubSeq(p, 1, Len(p) - 1)
DistinctWords(tree) == \A p, r \in DOMAIN tree : p # r => tree[p] # tree[r]
AscendingOrder == [n \in Branching(bk) |-> [k \in KeyRange |-> k]]

\* C2: on a tree of pairwise distinct words, for a wildcard-free query and
\* any tolerance, find returns exactly the stored words whose edit distance to
\* the query is at most the tolerance.
C2_FindExact ==
    (bkOp = "find" /\ NoStar(query) /\ DistinctWords(Target)) =>
        BagToSet(results) = {w \in Words(Target) : editDistance(query, w) <= tolerance}

\* C5: for every node c stored in its parent n under key d,
\* editDistance(n.word, c.word) = d; every node but the root hangs under a
\* node of the tree, one child per key.
C5_EdgeKeys ==
    \A p \in DOMAIN bk :
        p # Root =>
            /\ Parent(p) \in DOMAIN bk
            /\ editDistance(bk[Parent(p)], bk[p]) = p[Len(p)]

\* C5 witness: a tree of three distinct non-empty words with a node two
\* levels below the root, just after the insert that added it.
C5_Witness ==
    /\ \E p \in DOMAIN bk : Len(p) = 2 /\ p[2] > 0
    /\ \A p \in DOMAIN bk : bk[p] # <<>>
    /\ DistinctWords(bk)
    /\ bkOp = "insert"

\* C6: an insert of a word the tree already stores leaves the tree
\* unchanged.
C6_DuplicateInsertNoChange ==
    [][(bkOp' = "insert" /\ bkCount' = bkCount + 1 /\ bkWord' \in Words(bk)) => bk' = bk]_vars

\* C7: the list find returns holds no word twice, whatever was inserted.
C7_NoWordTwice ==
    bkOp = "find" => \A w \in BagToSet(results) : CopiesIn(w, results) = 1

\* C8: every word find(q, t) returns is returned by find(q, t + 1), for
\* queries with or without wildcards.
C8_ToleranceMonotone ==
    (bkOp = "find" /\ tolerance < UINT_MAX) =>
        \A w \in BagToSet(results) :
            BagIn(w, BKTree_find(Target, query, tolerance + 1))

\* C9: the tree read back from the bytes serialize wrote has the same word at
\* every node and the same child keys as the tree written, whatever the order
\* the children were written in, and find on it returns what find returns on
\* the tree written.
C9_RoundTrip ==
    Loaded =>
        /\ reloaded = bk
        /\ bkOp = "find" => results = BKTree_find(bk, query, tolerance)

\* C9 witness: a tree of distinct words whose root has two children was written with the
\* children not in ascending key order, read back, and queried with a
\* non-empty result.
C9_Witness ==
    /\ Loaded
    /\ DistinctWords(bk)
    /\ Cardinality(ChildKeys(bk, Root)) >= 2
    /\ stream # serialize(bk, Root, AscendingOrder)
    /\ bkOp = "find"
    /\ results # EmptyBag

---------------------------------------------------------------------------
(* Trie (src/lib/trie/trie.cpp, src/lib/trie/trie_node.cpp).  The tree is a *)
(* function from paths to nodes: the root is the empty path and the child   *)
(* in slot k of the children vector of node n is the path Append(n, k).     *)

\* Bounds of the Trie checks: the length of a word and the insert calls per run.
TrieMaxLen == 2
MaxTrieInserts == 3

\* The int a char of the build holds: char is signed and 8 bits wide, so the
\* bytes 128..255 are the values -128..-1.
CharValue(c) == IF c >= 128 THEN c - 256 ELSE c

\* std::tolower(int) in the "C" locale: the lower-case letter of an upper-case
\* one, EOF (-1) for EOF, every other unsigned char value unchanged.  The
\* negative values -128..-2, which a plain char argument can hold, are outside
\* what the standard defines; the table of the build gives the code of the
\* byte, 128..254.
tolower(x) ==
    IF x >= 65 THEN (IF x <= 90 THEN x + 32 ELSE x)
    ELSE IF x <= -2 /\ x >= -128 THEN x + 256
    ELSE x

\* std::size_t at SizeBits bits, and the conversion of an int to it.
SizeBits == 16
SIZE_MAX == (2 ^ SizeBits) - 1
ToSize(x) == x % (SIZE_MAX + 1)

\* The slot of the children vector a character stands for (trie_node.cpp:69):
\* std::tolower(c) - 'a' with c a plain char.
Slot(c) == tolower(CharValue(c)) - CH_a

\* TrieNode::TrieNode(): children(26).
CHILDREN_SIZE == 26

\* The slot of c lies inside the children vector: it does for the letters
\* a..z and A..Z, and for no other character.
InChildren(c) == Slot(c) \in 0..(CHILDREN_SIZE - 1)

\* Line 69: children[slot] != nullptr; a read outside the vector is undefined
\* behaviour.
TrieNode_hasChild(t, n, c) ==
    IF InChildren(c) THEN Append(n, Slot(c)) \in DOMAIN t ELSE UNDEFINED

\* Line 80: children[slot].get(); outside the vector the pointer read is no
\* node.
TrieNode_getChild(n, c) ==
    IF InChildren(c) THEN Append(n, Slot(c)) ELSE UNDEFINED

\* Lines 90-96; outside the vector both the test and the write are undefined
\* behaviour.
TrieNode_createChild(t, n, c) ==
    IF ~InChildren(c) THEN UNDEFINED
    ELSE IF ~TrieNode_hasChild(t, n, c)
    THEN (Append(n, Slot(c)) :> [is_end_of_word |-> FALSE, number_of_children |-> 0])
            @@ [t EXCEPT ![n].number_of_children = @ + 1]
    ELSE t

\* Mutant: the flag is flipped instead of set.
TrieNode_flipEndOfWord(t, n, flag) == [t EXCEPT ![n].is_end_of_word = ~@]

TrieNode_setEndOfWord(t, n, flag) == [t EXCEPT ![n].is_end_of_word = flag]

\* Trie::insert from character i of word on, with node = n (lines 43-53).
\* At a character whose slot is outside the children vector the call is
\* undefined from there on.
RECURSIVE InsertFrom(_, _, _, _)
InsertFrom(t, n, word, i) ==
    IF i > Len(word) THEN TrieNode_setEndOfWord(t, n, TRUE)
    ELSE IF ~InChildren(word[i]) THEN UNDEFINED
    ELSE LET c == word[i]
             t2 == IF ~TrieNode_hasChild(t, n, c) THEN TrieNode_createChild(t, n, c) ELSE t
         IN  InsertFrom(t2, TrieNode_getChild(n, c), word, i + 1)

Trie_insert(t, word) == InsertFrom(t, <<>>, word, 1)

\* Mutant: the walk's success is the answer, as in startsWith.
SearchAtEndPrefix(t, n) == TRUE

\* Line 76: return node->isEndOfWord()
SearchAtEnd(t, n) == t[n].is_end_of_word

\* Trie::search from character i of word on, with node = n (lines 66-76);
\* undefined from a character on whose slot is outside the children vector.
RECURSIVE SearchFrom(_, _, _, _)
SearchFrom(t, n, word, i) ==
    IF i > Len(word) THEN SearchAtEnd(t, n)
    ELSE IF ~InChildren(word[i]) THEN UNDEFINED
    ELSE IF ~TrieNode_hasChild(t, n, word[i]) THEN FALSE
    ELSE SearchFrom(t, TrieNode_getChild(n, word[i]), word, i + 1)

Trie_search(t, word) == SearchFrom(t, <<>>, word, 1)

\* Mutant: a prefix counts only where a word ends, as in search.
StartsWithAtEndWord(t, n) == t[n].is_end_of_word

\* Line 99: return true
StartsWithAtEnd(t, n) == TRUE

\* Trie::startsWith from character i of prefix on, with node = n (lines
\* 89-99); undefined from a character on whose slot is outside the children
\* vector.
RECURSIVE StartsWithFrom(_, _, _, _)
StartsWithFrom(t, n, prefix, i) ==
    IF i > Len(prefix) THEN StartsWithAtEnd(t, n)
    ELSE IF ~InChildren(prefix[i]) THEN UNDEFINED
    ELSE IF ~TrieNode_hasChild(t, n, prefix[i]) THEN FALSE
    ELSE StartsWithFrom(t, TrieNode_getChild(n, prefix[i]), prefix, i + 1)

Trie_startsWith(t, prefix) == StartsWithFrom(t, <<>>, prefix, 1)

\* Mutant: the index of the last letter is recorded, not the offset after it.
EndingOffsetOfLetter(i) == i

\* Line 130: valid_endings.push_back(i + 1)
EndingOffset(i) == i + 1

\* The loop of Trie::getValidEndings (lines 119-132) from index i on (i counts
\* from 0 as in the code, text[i] is the model's text[i + 1]), with node = n
\* and the list built so far.  The guard of line 119 compares the int i with
\* text.length() as std::size_t, so a negative i is a large number and ends
\* the loop.  The call is undefined from a character on whose slot is outside
\* the children vector.
RECURSIVE EndingsFrom(_, _, _, _, _)
EndingsFrom(t, n, text, i, valid_endings) ==
    IF ~(ToSize(i) < Len(text)) THEN valid_endings
    ELSE IF ~InChildren(text[i + 1]) THEN UNDEFINED
    ELSE IF ~TrieNode_hasChild(t, n, text[i + 1]) THEN valid_endings
    ELSE LET node == TrieNode_getChild(n, text[i + 1])
         IN  EndingsFrom(t, node, text, i + 1,
                         IF t[node].is_end_of_word
                         THEN Append(valid_endings, EndingOffset(i))
                         ELSE valid_endings)

Trie_getValidEndings(t, text, start_pos) == EndingsFrom(t, <<>>, text, start_pos, <<>>)

\* std::isalpha in the "C" locale, on the character cast to unsigned char.
isalpha(c) == (c >= 65 /\ c <= 90) \/ (c >= 97 /\ c <= 122)

\* The first letter from c on, in the order of the loop for(c = 'a'; c <= 'z';
\* c++), for which the node has a child; the character after 'z' if none.
NextChild(t, n, c) ==
    LET present == {x \in c..CH_z : TrieNode_hasChild(t, n, x)}
    IN  IF present = {} THEN CH_z + 1
        ELSE CHOOSE x \in present : \A y \in present : x <= y

\* Mutant: the end of the pattern matches at any node, word or not.
MatchAtEndAnyNode(t, n) == TRUE

\* Line 161: return node->isEndOfWord()
MatchAtEnd(t, n) == t[n].is_end_of_word

\* Trie::matchPattern(pattern, index, node) (lines 156-200); index counts from
\* 0.  The value is the answer together with the characters that were passed
\* to TrieNode::hasChild on the way.
RECURSIVE MatchPatternFrom(_, _, _, _)
RECURSIVE MatchWildcard(_, _, _, _, _)
MatchPatternFrom(t, pattern, index, n) ==
    IF index = Len(pattern) THEN [found |-> MatchAtEnd(t, n), lookups |-> {}]
    ELSE LET ch == pattern[index + 1]
         IN  IF ch = CH_STAR THEN MatchWildcard(t, pattern, index, n, CH_a)
             ELSE IF ~isalpha(ch) THEN [found |-> FALSE, lookups |-> {}]
             ELSE IF ~TrieNode_hasChild(t, n, ch) THEN [found |-> FALSE, lookups |-> {ch}]
             ELSE LET r == MatchPatternFrom(t, pattern, index + 1, TrieNode_getChild(n, ch))
                  IN  [found |-> r.found, lookups |-> r.lookups \cup {ch}]

\* The wildcard loop (lines 169-180) from letter first on: the iterations
\* that find no child and continue are taken in one step, up to the next
\* letter c that has a child.
MatchWildcard(t, pattern, index, n, first) ==
    LET c == NextChild(t, n, first)
    IN  IF c > CH_z THEN [found |-> FALSE, lookups |-> first..CH_z]
        ELSE LET r == MatchPatternFrom(t, pattern, index + 1, TrieNode_getChild(n, c))
             IN  IF r.found THEN [found |-> TRUE, lookups |-> r.lookups \cup (first..c)]
                 ELSE LET rest == MatchWildcard(t, pattern, index, n, c + 1)
                      IN  [found |-> rest.found,
                           lookups |-> r.lookups \cup rest.lookups \cup (first..c)]

Trie_matchPattern(t, pattern) == MatchPatternFrom(t, pattern, 0, <<>>)

\* Mutant: the end of the pattern collects the string built at any node.
CollectAtEndAnyNode(t, n) == TRUE

\* Line 230: if(node->isEndOfWord())
CollectAtEnd(t, n) == t[n].is_end_of_word

\* Trie::collectMatches(pattern, index, node, current, results) (lines 224-271).
\* acc holds the list results and the characters passed to TrieNode::hasChild.
RECURSIVE CollectFrom(_, _, _, _, _, _)
RECURSIVE CollectWildcard(_, _, _, _, _, _, _)
CollectFrom(t, pattern, index, n, current, acc) ==
    IF index = Len(pattern)
    THEN IF CollectAtEnd(t, n) THEN [acc EXCEPT !.results = Append(@, current)] ELSE acc
    ELSE LET ch == pattern[index + 1]
         IN  IF ch = CH_STAR THEN CollectWildcard(t, pattern, index, n, current, acc, CH_a)
             ELSE IF ~isalpha(ch) THEN acc
             ELSE IF ~TrieNode_hasChild(t, n, ch)
                  THEN [acc EXCEPT !.lookups = @ \cup {ch}]
             ELSE CollectFrom(t, pattern, index + 1, TrieNode_getChild(n, ch),
                              Append(current, ch),
                              [acc EXCEPT !.lookups = @ \cup {ch}])

\* The wildcard loop (lines 243-251) from letter first on, the iterations
\* that find no child taken in one step as in MatchWildcard.
CollectWildcard(t, pattern, index, n, current, acc, first) ==
    LET c == NextChild(t, n, first)
    IN  IF c > CH_z THEN [acc EXCEPT !.lookups = @ \cup (first..CH_z)]
        ELSE CollectWildcard(t, pattern, index, n, current,
                             CollectFrom(t, pattern, index + 1, TrieNode_getChild(n, c),
                                         Append(current, c),
                                         [acc EXCEPT !.lookups = @ \cup (first..c)]),
                             c + 1)

Trie_collectMatches(t, pattern) ==
    CollectFrom(t, pattern, 0, <<>>, <<>>, [results |-> <<>>, lookups |-> {}])

---------------------------------------------------------------------------
(* Trie specification *)

TrieAlphabet == {CH_a, CH_b}
TrieWords == StringsUpTo(TrieAlphabet, TrieMaxLen)

\* The texts given to getValidEndings and the patterns given to matchPattern
\* and collectMatches.  A text may be longer than every stored word; so may a
\* pattern: a word of full length followed by a wildcard, or wildcards only.
TrieTexts == StringsUpTo(TrieAlphabet, TrieMaxLen + 1)
TriePatterns ==
    StringsUpTo(TrieAlphabet \cup {CH_STAR}, TrieMaxLen)
        \cup {Append(w, CH_STAR) : w \in [1..TrieMaxLen -> TrieAlphabet]}
        \cup {[i \in 1..(TrieMaxLen + 1) |-> CH_STAR]}

\* Characters outside a..z and '*': 'A', 'B', '1', '`' (the one before 'a')
\* and '{' (the one after 'z'), and the patterns that hold one of them.
OtherChars == {65, 66, 49, 96, 123}
OtherPatterns ==
    UNION {{<<o>>, <<CH_a, o>>, <<CH_STAR, o>>, <<o, CH_b>>} : o \in OtherChars}

\* A query leaves the Trie as it is, so a run ends with its query.
TrieOpen == trieOp \in {"none", "insert"}

queryVars == <<startPos, endings, matches, lookups>>

InitTrieSpec == InitEDIdle /\ InitBK /\ InitTrie /\ InitBuildIdle /\ InitWalkIdle /\ InitProbIdle /\ InitCliIdle

TrieInsert(w) ==
    /\ TrieOpen
    /\ Cardinality(inserted) < MaxTrieInserts
    /\ trie' = Trie_insert(trie, w)
    /\ trieOp' = "insert"
    /\ trieWord' = w
    /\ inserted' = inserted \cup {w}
    /\ wasStored' = (w \in inserted)
    /\ found' = FALSE
    /\ UNCHANGED <<queryVars, edVars, bkVars, buildVars, walkVars, probVars, cliVars>>

TrieSearch(w) ==
    /\ TrieOpen
    /\ found' = Trie_search(trie, w)
    /\ trieOp' = "search"
    /\ trieWord' = w
    /\ wasStored' = FALSE
    /\ UNCHANGED <<trie, inserted, queryVars, edVars, bkVars, buildVars, walkVars, probVars, cliVars>>

TrieStartsWith(prefix) ==
    /\ TrieOpen
    /\ found' = Trie_startsWith(trie, prefix)
    /\ trieOp' = "startsWith"
    /\ trieWord' = prefix
    /\ wasStored' = FALSE
    /\ UNCHANGED <<trie, inserted, queryVars, edVars, bkVars, buildVars, walkVars, probVars, cliVars>>

TrieGetValidEndings(text, start) ==
    /\ TrieOpen
    /\ endings' = Trie_getValidEndings(trie, text, start)
    /\ trieOp' = "getValidEndings"
    /\ trieWord' = text
    /\ startPos' = start
    /\ wasStored' = FALSE
    /\ UNCHANGED <<trie, inserted, found, matches, lookups, edVars, bkVars, buildVars, walkVars, probVars, cliVars>>

TrieMatchPattern(pattern) ==
    /\ TrieOpen
    /\ LET r == Trie_matchPattern(trie, pattern)
       IN  found' = r.found /\ lookups' = r.lookups
    /\ trieOp' = "matchPattern"
    /\ trieWord' = pattern
    /\ wasStored' = FALSE
    /\ UNCHANGED <<trie, inserted, startPos, endings, matches, edVars, bkVars, buildVars, walkVars, probVars, cliVars>>

TrieCollectMatches(pattern) ==
    /\ TrieOpen
    /\ LET r == Trie_collectMatches(trie, pattern)
       IN  matches' = r.results /\ lookups' = r.lookups
    /\ trieOp' = "collectMatches"
    /\ trieWord' = pattern
    /\ wasStored' = FALSE
    /\ UNCHANGED <<trie, inserted, found, startPos, endings, edVars, bkVars, buildVars, walkVars, probVars, cliVars>>

NextTrie ==
    \/ \E w \in TrieWords : TrieInsert(w)
    \/ \E w \in TrieWords : TrieSearch(w)
    \/ \E prefix \in TrieWords : TrieStartsWith(prefix)
    \/ \E text \in TrieTexts : \E start \in -1..Len(text) : TrieGetValidEndings(text, start)

SpecTrie == InitTrieSpec /\ [][NextTrie]_vars

\* The pattern queries, on the same Tries.
NextTriePattern ==
    \/ \E w \in TrieWords : TrieInsert(w)
    \/ \E pattern \in TriePatterns \cup OtherPatterns : TrieMatchPattern(pattern)
    \/ \E pattern \in TriePatterns \cup OtherPatterns : TrieCollectMatches(pattern)

SpecTriePattern == InitTrieSpec /\ [][NextTriePattern]_vars

\* C3: search(s) is true exactly for the words inserted so far: the answer a
\* search call gave, and the answer for every other string in every state, so
\* that an insert of w changes the answer for w alone.
C3_SearchIffInserted ==
    /\ trieOp = "search" => (found <=> trieWord \in inserted)
    /\ \A s \in TrieWords : Trie_search(trie, s) <=> s \in inserted

\* C3 witness: a search for a proper prefix of an inserted word, itself not
\* inserted, has answered false, while a longer word and the empty word are
\* stored.
C3_Witness ==
    /\ trieOp = "search" /\ ~found /\ Len(trieWord) = 1
    /\ \E w \in inserted : Len(w) = 2 /\ w[1] = trieWord[1]
    /\ <<>> \in inserted

IsPrefix(p, w) == Len(p) <= Len(w) /\ SubSeq(w, 1, Len(p)) = p

\* C13: after any sequence of inserts, none included, startsWith(p) is true
\* if and only if at least one stored word begins with p, the empty prefix
\* included.
C13_StartsWithIffPrefix ==
    /\ trieOp = "startsWith" => (found <=> \E w \in inserted : IsPrefix(trieWord, w))
    /\ \A p \in TrieWords :
          Trie_startsWith(trie, p) <=> \E w \in inserted : IsPrefix(p, w)

\* C14: insert is idempotent: an insert of a word that was stored before it
\* leaves the nodes, the terminal flags and the child counts as they were.
C14_InsertIdempotent ==
    [][(trieOp' = "insert" /\ wasStored') => trie' = trie]_vars

\* C14 witness: a word of full length has been inserted a second time, next
\* to another stored word that shares its first letter.
C14_Witness ==
    /\ trieOp = "insert" /\ wasStored /\ Len(trieWord) = TrieMaxLen
    /\ \E w \in inserted : w # trieWord /\ w # <<>> /\ w[1] = trieWord[1]
    /\ trie = Trie_insert(trie, trieWord)

\* The piece text[start..e) of a text, offsets counted from 0.
Piece(text, start, e) == SubSeq(text, start + 1, e)

StrictlyIncreasing(l) == \A i \in 1..(Len(l) - 1) : l[i] < l[i + 1]

Elements(l) == {l[i] : i \in 1..Len(l)}

\* C15: for a start with 0 <= start <= |text|, getValidEndings(text, start)
\* returns, in strictly increasing order, exactly the offsets e with
\* start <= e <= |text| such that text[start..e) is a stored word, also when
\* the empty word is stored.
C15_ValidEndingsFromStart ==
    (trieOp = "getValidEndings" /\ startPos \in 0..Len(trieWord)) =>
        /\ StrictlyIncreasing(endings)
        /\ Elements(endings) =
              {e \in startPos..Len(trieWord) : Piece(trieWord, startPos, e) \in inserted}

\* C15 as amended: for a start with 0 <= start <= |text|,
\* getValidEndings(text, start) returns, in strictly increasing order,
\* exactly the offsets e with start < e <= |text| such that text[start..e) is
\* a stored word; a stored empty word adds no offset.
C15_ValidEndingsAfterStart ==
    (trieOp = "getValidEndings" /\ startPos \in 0..Len(trieWord)) =>
        /\ StrictlyIncreasing(endings)
        /\ Elements(endings) =
              {e \in (startPos + 1)..Len(trieWord) : Piece(trieWord, startPos, e) \in inserted}

\* C15 witness: from a start inside the text two stored words of different
\* lengths end in it, and the empty word is stored.
C15_Witness ==
    /\ trieOp = "getValidEndings" /\ startPos > 0 /\ Len(endings) = 2
    /\ <<>> \in inserted

\* A pattern matches a word of its own length letter by letter, a wildcard
\* standing for any one letter.
Matches(pattern, w) ==
    /\ Len(w) = Len(pattern)
    /\ \A i \in 1..Len(w) : pattern[i] = CH_STAR \/ pattern[i] = w[i]

\* C16: for a pattern over a..z and '*', matchPattern is true if and only if
\* some stored word has the length of the pattern and agrees with it at every
\* position that is not a wildcard; it is true exactly when collectMatches
\* returns a non-empty list.
C16_MatchPatternIffWordMatches ==
    (trieOp = "matchPattern" /\ trieWord \in TriePatterns) =>
        /\ found <=> \E w \in inserted : Matches(trieWord, w)
        /\ found <=> Trie_collectMatches(trie, trieWord).results # <<>>

\* C16 witness: a pattern with a wildcard has been answered false although a
\* stored word agrees with all of it but is one letter shorter, and another
\* such pattern would be answered true.
C16_Witness ==
    /\ trieOp = "matchPattern" /\ ~found /\ Len(trieWord) = 2
    /\ trieWord[2] = CH_STAR /\ trieWord[1] # CH_STAR
    /\ <<trieWord[1]>> \in inserted
    /\ \E w \in inserted : Len(w) = 2 /\ w[1] # trieWord[1]

\* Alphabetical order of two strings.
RECURSIVE LexLess(_, _)
LexLess(s, t) ==
    IF t = <<>> THEN FALSE
    ELSE IF s = <<>> THEN TRUE
    ELSE IF s[1] # t[1] THEN s[1] < t[1]
    ELSE LexLess(Tail(s), Tail(t))

\* C17: for a pattern over a..z and '*', collectMatches returns every stored
\* word that matches the pattern and nothing else, each once, in ascending
\* alphabetical order.
C17_CollectMatchesExactSorted ==
    (trieOp = "collectMatches" /\ trieWord \in TriePatterns) =>
        /\ Elements(matches) = {w \in inserted : Matches(trieWord, w)}
        /\ \A i \in 1..(Len(matches) - 1) : LexLess(matches[i], matches[i + 1])

\* C17 witness: a pattern of wildcards only has collected two stored words,
\* while a stored word of another length was left out.
C17_Witness ==
    /\ trieOp = "collectMatches" /\ Len(matches) = 2 /\ Len(trieWord) = TrieMaxLen
    /\ \A i \in 1..Len(trieWord) : trieWord[i] = CH_STAR
    /\ \E w \in inserted : Len(w) # Len(trieWord)

\* The search reaches position i of the pattern: the letters and wildcards
\* before it lead to a node of the Trie.
Reaches(pattern, i) ==
    \E n \in DOMAIN trie :
        /\ Len(n) = i - 1
        /\ \A k \in 1..(i - 1) : pattern[k] = CH_STAR \/ pattern[k] - CH_a = n[k]

\* The literal at position i is neither '*' nor one of a..z.
NeitherStarNorLetter(pattern, i) ==
    pattern[i] # CH_STAR /\ ~(pattern[i] >= CH_a /\ pattern[i] <= CH_z)

\* C18: when a reached position of the pattern holds a literal that is neither
\* '*' nor one of a..z (a digit, a punctuation mark, an upper-case letter),
\* matchPattern returns false, collectMatches returns nothing matched through
\* it, and no child slot is looked up for that character.
C18_NonLetterLiteralRejected ==
    (/\ trieOp \in {"matchPattern", "collectMatches"}
     /\ \E i \in 1..Len(trieWord) :
            /\ NeitherStarNorLetter(trieWord, i)
            /\ Reaches(trieWord, i)
            /\ \A k \in 1..(i - 1) : ~NeitherStarNorLetter(trieWord, k))
    => /\ trieOp = "matchPattern" => ~found
       /\ trieOp = "collectMatches" => matches = <<>>
       /\ \A i \in 1..Len(trieWord) :
             NeitherStarNorLetter(trieWord, i) => trieWord[i] \notin lookups

---------------------------------------------------------------------------
(* TreeBuilder (src/data_preparation/tree_builder.cpp), driven as main      *)
(* (src/data_preparation/main.cpp) drives it: readWordlist, then buildTrie  *)
(* if a Trie output is asked for, then buildBKTree if a BK-tree output is   *)
(* asked for.  The word list file is the sequence of its bytes.  Of an      *)
(* output file the model keeps that it was written, not its bytes.          *)

CH_LF == 10
CH_CR == 13
CH_A == 65
CH_Z == 90

\* Bound of the builder checks: the length of the word list file in bytes.
FileMaxLen == 4

\* Mutant: only the newline is dropped, a carriage return is kept.
IsLineBreakLFOnly(c) == c = CH_LF

\* Line 137: c == '\n' || c == '\r'
IsLineBreak(c) == c = CH_LF \/ c = CH_CR

\* Line 141: c >= 'A' && c <= 'Z'
IsUpper(c) == c >= CH_A /\ c <= CH_Z

\* TreeBuilder::transformString from character i of s on (lines 135-150).
RECURSIVE TransformFrom(_, _, _)
TransformFrom(s, i, result) ==
    IF i > Len(s) THEN result
    ELSE IF IsLineBreak(s[i]) THEN TransformFrom(s, i + 1, result)
    ELSE IF IsUpper(s[i]) THEN TransformFrom(s, i + 1, Append(result, tolower(s[i])))
    ELSE TransformFrom(s, i + 1, Append(result, s[i]))

transformString(s) == TransformFrom(s, 1, <<>>)

\* TreeBuilder::isValidString: no character outside a..z (lines 163-171).
isValidString(s) == \A i \in 1..Len(s) : s[i] >= CH_a /\ s[i] <= CH_z

\* std::getline(file, line) at position pos of the bytes: the position of the
\* delimiter '\n' that ends the line, or one past the last byte if none is
\* left.
LineEnd(bytes, pos) ==
    LET ends == {e \in pos..Len(bytes) : bytes[e] = CH_LF}
    IN  IF ends = {} THEN Len(bytes) + 1
        ELSE CHOOSE e \in ends : \A x \in ends : e <= x

\* The loop of readWordlist (lines 56-64) from position pos on.  getline
\* fails, and the loop ends, when no byte is left to extract.
RECURSIVE ReadLoop(_, _, _)
ReadLoop(bytes, pos, list) ==
    IF pos > Len(bytes) THEN list
    ELSE LET e == LineEnd(bytes, pos)
             line == transformString(SubSeq(bytes, pos, e - 1))
         IN  ReadLoop(bytes, e + 1,
                      IF isValidString(line) THEN Append(list, line) ELSE list)

readWordlist(bytes, list) == ReadLoop(bytes, 1, list)

\* A Trie as Trie::Trie() makes it.
NewTrie == <<>> :> [is_end_of_word |-> FALSE, number_of_children |-> 0]

\* The loop of buildTrie (lines 78-81) from word i of the list on.
RECURSIVE TrieInsertAll(_, _, _)
TrieInsertAll(t, list, i) ==
    IF i > Len(list) THEN t ELSE TrieInsertAll(Trie_insert(t, list[i]), list, i + 1)

\* The loop of buildBKTree (lines 107-110) from word i of the list on.
RECURSIVE BKInsertAll(_, _, _)
BKInsertAll(tree, list, i) ==
    IF i > Len(list) THEN tree ELSE BKInsertAll(BKTree_insert(tree, list[i]), list, i + 1)

\* std::shuffle (lines 102-103): any order of the same elements.
Shuffles(list) ==
    {[i \in 1..Len(list) |-> list[p[i]]] :
        p \in {q \in [1..Len(list) -> 1..Len(list)] :
                  \A x, y \in 1..Len(list) : q[x] = q[y] => x = y}}

---------------------------------------------------------------------------
(* Builder specification *)

\* The bytes of a word list: two letters, an upper-case letter, the line
\* feed, the carriage return and '-', a character no word holds.
FileBytes == {CH_a, CH_b, CH_A, CH_LF, CH_CR, 45}
Files == StringsUpTo(FileBytes, FileMaxLen)

InitBuild ==
    /\ InitEDIdle /\ InitBK /\ InitTrie
    /\ file \in Files /\ words = <<>> /\ stage = "constructed" /\ outputs = {}
    /\ InitWalkIdle
    /\ InitProbIdle
    /\ InitCliIdle

\* tree_builder.readWordlist(value): the file opens or it does not.
ReadWordlist(opened) ==
    /\ stage = "constructed"
    /\ IF opened
       THEN words' = readWordlist(file, words) /\ stage' = "read"
       ELSE words' = words /\ stage' = "failed"
    /\ UNCHANGED <<file, outputs, edVars, bkVars, trieVars, walkVars, probVars, cliVars>>

\* tree_builder.buildTrie(value): the Trie is built, then the output file
\* opens and is written, or it does not open.
BuildTrie(opened) ==
    /\ stage = "read"
    /\ trie' = TrieInsertAll(NewTrie, words, 1)
    /\ inserted' = {words[i] : i \in 1..Len(words)}
    /\ IF opened
       THEN outputs' = outputs \cup {"trie"} /\ stage' = "trie"
       ELSE outputs' = outputs /\ stage' = "failed"
    /\ UNCHANGED <<file, words, trieOp, trieWord, found, queryVars, wasStored, edVars, bkVars, walkVars, probVars, cliVars>>

\* tree_builder.buildBKTree(value): the words are shuffled in place, the tree
\* is built, then the output file opens and is written, or it does not open.
BuildBKTree(opened) ==
    /\ stage \in {"read", "trie"}
    /\ \E shuffled \in Shuffles(words) :
          /\ words' = shuffled
          /\ bk' = BKInsertAll(EmptyTree, shuffled, 1)
    /\ IF opened
       THEN outputs' = outputs \cup {"bktree"} /\ stage' = "bktree"
       ELSE outputs' = outputs /\ stage' = "failed"
    /\ UNCHANGED <<file, bkCount, bkOp, bkWord, query, tolerance, results, stream, reloaded,
                   edVars, trieVars, walkVars, probVars, cliVars>>

NextBuild ==
    \/ \E opened \in BOOLEAN : ReadWordlist(opened)
    \/ \E opened \in BOOLEAN : BuildTrie(opened)
    \/ \E opened \in BOOLEAN : BuildBKTree(opened)

SpecBuild == InitBuild /\ [][NextBuild]_vars

---------------------------------------------------------------------------
(* What the word list says, read off the bytes without the builder: a line  *)
(* starts at the first byte and after every line feed that is not the last  *)
(* byte, and runs up to the next line feed or the end of the file.          *)

LineStarts(bytes) ==
    {p \in 1..Len(bytes) : p = 1 \/ bytes[p - 1] = CH_LF}

LineFrom(bytes, p) ==
    LET rest == SubSeq(bytes, p, Len(bytes))
        cut == {k \in 1..Len(rest) : rest[k] = CH_LF}
    IN  IF cut = {} THEN rest
        ELSE SubSeq(rest, 1, (CHOOSE k \in cut : \A x \in cut : k <= x) - 1)

\* The line with every CR and LF byte deleted and A..Z mapped to a..z.
NoCRLF(c) == c \notin {10, 13}
Lowered(line) == [k \in 1..Len(line) |-> IF line[k] \in 65..90 THEN line[k] + 32 ELSE line[k]]
Normalised(line) == Lowered(SelectSeq(line, NoCRLF))

OnlyLetters(s) == \A k \in 1..Len(s) : s[k] \in 97..122

AcceptedStarts(bytes) ==
    {p \in LineStarts(bytes) : OnlyLetters(Normalised(LineFrom(bytes, p)))}

\* The k-th element of a set of numbers, in ascending order.
Nth(S, k) == CHOOSE x \in S : Cardinality({y \in S : y < x}) = k - 1

\* The accepted lines, normalised, in file order.
AcceptedWords(bytes) ==
    [k \in 1..Cardinality(AcceptedStarts(bytes)) |->
        Normalised(LineFrom(bytes, Nth(AcceptedStarts(bytes), k)))]

\* The file with every line end CRLF written as LF.
WithLFLineEnds(bytes) ==
    LET kept == {k \in 1..Len(bytes) :
                    ~(bytes[k] = 13 /\ k < Len(bytes) /\ bytes[k + 1] = 10)}
    IN  [k \in 1..Cardinality(kept) |-> bytes[Nth(kept, k)]]

SameElements(l, m) ==
    \A w \in Elements(l) \cup Elements(m) :
        Cardinality({k \in 1..Len(l) : l[k] = w}) = Cardinality({k \in 1..Len(m) : m[k] = w})

\* The words the Trie holds, read off its terminal nodes.
TrieStored(t) == {[k \in 1..Len(n) |-> n[k] + 97] : n \in {m \in DOMAIN t : t[m].is_end_of_word}}

\* C19: readWordlist accepts a line if and only if, with every CR and LF byte
\* deleted and A..Z mapped to a..z, all its bytes are in a..z, and stores the
\* normalised lines in file order; so every word passed to Trie::insert or to
\* the BK-tree insert holds only a..z, and a line that ends in CRLF gives the
\* word the same line ending in LF gives.
C19_AcceptedLinesNormalised ==
    /\ stage \in {"read", "trie"} =>
          /\ words = AcceptedWords(file)
          /\ words = readWordlist(WithLFLineEnds(file), <<>>)
    /\ stage = "bktree" => SameElements(words, AcceptedWords(file))
    /\ \A k \in 1..Len(words) : OnlyLetters(words[k])
    /\ "trie" \in outputs =>
          /\ \A n \in DOMAIN trie : \A k \in 1..Len(n) : n[k] \in 0..25
          /\ TrieStored(trie) = Elements(AcceptedWords(file))
    /\ "bktree" \in outputs =>
          /\ Words(bk) = Elements(AcceptedWords(file))
          /\ \A w \in Words(bk) : OnlyLetters(w)

\* C19 witness: a file with an upper-case letter, a CRLF line end and a line
\* that is rejected, from which one word was stored and put in the Trie.
C19_Witness ==
    /\ stage = "trie" /\ Len(words) = 1 /\ words[1] # <<>>
    /\ \E k \in 1..(Len(file) - 1) : file[k] = CH_CR /\ file[k + 1] = CH_LF
    /\ \E k \in 1..Len(file) : file[k] = CH_A
    /\ Cardinality(LineStarts(file)) = 2
    /\ TrieStored(trie) = {words[1]}

\* C20: every word the build stores in a BK-tree node or marks as terminal in
\* the Trie is a non-empty string; no line of the input, a blank line
\* included, has the empty word inserted.
C20_NoEmptyWordStored ==
    /\ \A k \in 1..Len(words) : words[k] # <<>>
    /\ "trie" \in outputs => ~trie[<<>>].is_end_of_word
    /\ "bktree" \in outputs => <<>> \notin Words(bk)


\* The slot path of a word: the node reached by walking its characters.
PathOf(w) == [k \in 1..Len(w) |-> w[k] - CH_a]

\* The Trie a set of words over a..z determines: one node per prefix of a
\* word of the set, terminal exactly at the words, each node counting the
\* nodes one character longer.
TrieOfSet(S) ==
    LET nodes == {PathOf(SubSeq(w, 1, k)) : <<w, k>> \in {x \in S \X (0..FileMaxLen) : x[2] <= Len(x[1])}}
                    \cup {<<>>}
    IN  [n \in nodes |->
            [is_end_of_word |-> \E w \in S : PathOf(w) = n,
             number_of_children |->
                 Cardinality({m \in nodes : Len(m) = Len(n) + 1 /\ SubSeq(m, 1, Len(n)) = n})]]

\* C21: the Trie the build writes is the Trie of the set of accepted words of
\* the file: the same nodes and terminal flags whatever the order and the
\* repetitions of the words, and the shuffle of the word list by the BK-tree
\* build leaves it as it was.
C21_TrieDependsOnWordSetOnly ==
    "trie" \in outputs =>
        /\ trie = TrieOfSet(Elements(AcceptedWords(file)))
        /\ \A s \in Shuffles(words) : TrieInsertAll(NewTrie, s, 1) = trie

\* C21 witness: a file of two different words whose Trie was written before
\* the BK-tree build put the word list in the other order.
C21_Witness ==
    /\ stage = "bktree" /\ "trie" \in outputs
    /\ words # AcceptedWords(file)
    /\ Len(words) = 2 /\ words[1] # <<>> /\ words[2] # <<>>


\* The child window of find in unbounded integers: the keys k with
\* distance - tolerance <= k <= distance + tolerance.
InTrueWindow(k, distance, tol) == k >= distance - tol /\ k <= distance + tol

\* C30: in find the test distance <= tolerance and the child window evaluate
\* as in unbounded integer arithmetic for every tolerance an unsigned int
\* holds, so no child whose key lies in the true window is skipped and a
\* tolerance at least as large as every stored distance returns every stored
\* word.
C30_WindowWithoutWrapAround ==
    bkOp = "find" =>
        /\ \A p \in DOMAIN Target :
              LET distance == editDistance(Target[p], query)
              IN  /\ WithinTolerance(distance, tolerance) <=> distance <= tolerance
                  /\ \A k \in ChildKeys(Target, p) :
                        InTrueWindow(k, distance, tolerance) =>
                            (k >= MinDist(distance, tolerance) /\ k <= MaxDist(distance, tolerance))
        /\ (NoStar(query) /\ \A w \in Words(Target) : editDistance(query, w) <= tolerance) =>
              BagToSet(results) = Words(Target)


\* C29: on a tree of pairwise distinct words, find with a query that holds
\* one or more wildcards returns every stored word whose edit distance to the
\* query is at most the tolerance; a stored word that matches the query
\* position by position is returned for every tolerance.
C29_WildcardFindComplete ==
    (bkOp = "find" /\ HasStar(query) /\ DistinctWords(Target) /\ tolerance <= MaxTol) =>
        \A w \in Words(Target) :
            editDistance(query, w) <= tolerance => BagIn(w, results)


---------------------------------------------------------------------------
(* BKTreeNode::insert, one iteration of its loop at a time *)

\* More iterations than a walk in a tree of MaxNodes nodes can take.
StepCap == MaxNodes + 1

InitWalk ==
    /\ InitEDIdle /\ InitBK /\ InitTrie /\ InitBuildIdle
    /\ walkNode = Root /\ walkSteps = 0 /\ walkPc = "idle"
    /\ InitProbIdle
    /\ InitCliIdle

\* BKTree::insert(word) up to the first iteration: an empty tree takes the
\* word as its root, any other tree starts the walk with node = this
\* (line 98).
InsertBegin(w) ==
    /\ walkPc \in {"idle", "done"}
    /\ bkCount < MaxNodes
    /\ bkCount' = bkCount + 1
    /\ bkOp' = "insert"
    /\ bkWord' = w
    /\ walkNode' = Root
    /\ walkSteps' = 0
    /\ IF DOMAIN bk = {}
       THEN bk' = (Root :> w) /\ walkPc' = "done"
       ELSE bk' = bk /\ walkPc' = "walking"
    /\ UNCHANGED <<query, tolerance, results, stream, reloaded, edVars, trieVars, buildVars, probVars, cliVars>>

\* Mutant: the walk stays at the node it is at.
StayAtNode(n, distance) == n

\* Line 110: node = node->getChild(distance).
Descend(n, distance) == getChild(n, distance)

\* What line 102 can give at node n: the distance and no abnormal end where
\* editDistance stays inside its vector.  Where it does not, the behaviour
\* is undefined: the process may end abnormally there, or the call may
\* return any number, taken here from the values a cell of the matrix holds
\* from its initialisation on, 0..len_a + len_b.
DistanceOutcomes(tree, n, word) ==
    IF DaInBounds(word, tree[n])
    THEN {[aborts |-> FALSE, distance |-> InsertDistance(tree, n, word)]}
    ELSE {[aborts |-> TRUE, distance |-> 0]}
            \cup {[aborts |-> FALSE, distance |-> d] : d \in 0..(Len(word) + Len(tree[n]))}

\* One iteration of the loop (lines 100-111): the distance is computed, then
\* the word is added under it and the call returns, or the walk moves to the
\* child under it.  Where the distance computation ends the process, the
\* tree is left as it was and the call never returns.
InsertStep ==
    /\ walkPc = "walking"
    /\ walkSteps < StepCap
    /\ \E outcome \in DistanceOutcomes(bk, walkNode, bkWord) :
           LET distance == outcome.distance
           IN  IF outcome.aborts
               THEN /\ bk' = bk
                    /\ walkNode' = walkNode
                    /\ walkPc' = "aborted"
               ELSE IF ~hasChild(bk, walkNode, distance)
               THEN /\ bk' = addChild(bk, walkNode, distance, bkWord)
                    /\ walkNode' = walkNode
                    /\ walkPc' = "done"
               ELSE /\ bk' = bk
                    /\ walkNode' = Descend(walkNode, distance)
                    /\ walkPc' = "walking"
    /\ walkSteps' = walkSteps + 1
    /\ UNCHANGED <<bkCount, bkOp, bkWord, query, tolerance, results, stream, reloaded,
                   edVars, trieVars, buildVars, probVars, cliVars>>

NextWalk ==
    \/ \E w \in BKWords : InsertBegin(w)
    \/ InsertStep

SpecInsertWalk == InitWalk /\ [][NextWalk]_vars

\* The depth of a tree: the edges from the root to its deepest node.
Depth(tree) == CHOOSE d \in 0..MaxNodes :
                  /\ \A p \in DOMAIN tree : Len(p) <= d
                  /\ \E p \in DOMAIN tree : Len(p) = d

\* C27: every call of insert ends: while the call is under way the walk is
\* at a node of the tree, as many levels down as distances were computed;
\* every iteration returns or goes one level down; so the call returns after
\* at most (depth of the tree + 1) distance computations, also for a word
\* that is stored at the root or deeper already, and no iteration is held up
\* by the cap on the counter.
C27_InsertTerminates ==
    /\ [](walkPc = "walking" =>
             /\ walkNode \in DOMAIN bk
             /\ walkSteps = Len(walkNode)
             /\ walkSteps <= Depth(bk)
             /\ walkSteps < StepCap)
    /\ [][walkPc = "walking" =>
             /\ walkSteps' = walkSteps + 1
             /\ \/ walkPc' = "done" /\ walkSteps' <= Depth(bk) + 1
                \/ walkPc' = "walking" /\ Len(walkNode') = Len(walkNode) + 1]_vars

\* C27 witness: the third insert of the word at the root has returned, after
\* walking through the copy under key 0.
C27_Witness ==
    /\ walkPc = "done" /\ walkSteps = 2
    /\ bkWord = bk[Root] /\ bk[<<0>>] = bkWord
    /\ walkNode = <<0>>


---------------------------------------------------------------------------
(* WordProb and WordContextAnalyzer (src/lib/word_prob) *)

\* std::uint64_t at CountBits bits: the counts wrap at 2^CountBits and the
\* "missing" value is the largest one.
CountBits == 3
U64Modulus == 2 ^ CountBits
U64_MAX == U64Modulus - 1

\* Mutant: the sum is kept without wrapping.
NoWrap(v) == v

\* Unsigned arithmetic: a sum is kept modulo 2^64.
Wrap(v) == v % U64Modulus

\* Mutant: the write is made whether or not the entry is there.
AddGuardAlways(present) == TRUE

\* The test of add*Word: if(!has*Word(word)).
AddGuard(present) == ~present

\* Mutant: the write is made whether or not the entry is there.
IncreaseGuardAlways(present) == TRUE

\* The test of increase*WordCount: if(has*Word(word)).
IncreaseGuard(present) == present

\* m[word] = value on an unordered_map.
MapAssign(m, word, value) == [w \in DOMAIN m \cup {word} |-> IF w = word THEN value ELSE m[w]]

\* m[word] += value on an unordered_map: operator[] makes an absent entry,
\* with count 0, before the sum.
MapAddTo(m, word, value) ==
    MapAssign(m, word, Wrap((IF word \in DOMAIN m THEN m[word] ELSE 0) + value))

\* WordProb::WordProb(): both maps empty.
NewWordProb == [before |-> <<>>, after |-> <<>>]

WordProb_hasBeforeWord(p, word) == word \in DOMAIN p.before

WordProb_hasAfterWord(p, word) == word \in DOMAIN p.after

WordProb_addBeforeWord(p, word, value) ==
    IF AddGuard(WordProb_hasBeforeWord(p, word))
    THEN [p EXCEPT !.before = MapAssign(@, word, value)]
    ELSE p

WordProb_addAfterWord(p, word, value) ==
    IF AddGuard(WordProb_hasAfterWord(p, word))
    THEN [p EXCEPT !.after = MapAssign(@, word, value)]
    ELSE p

WordProb_getBeforeWordCount(p, word) ==
    IF ~WordProb_hasBeforeWord(p, word) THEN U64_MAX ELSE p.before[word]

WordProb_getAfterWordCount(p, word) ==
    IF ~WordProb_hasAfterWord(p, word) THEN U64_MAX ELSE p.after[word]

WordProb_increaseBeforeWordCount(p, word, value) ==
    IF IncreaseGuard(WordProb_hasBeforeWord(p, word))
    THEN [p EXCEPT !.before = MapAddTo(@, word, value)]
    ELSE p

WordProb_increaseAfterWordCount(p, word, value) ==
    IF IncreaseGuard(WordProb_hasAfterWord(p, word))
    THEN [p EXCEPT !.after = MapAddTo(@, word, value)]
    ELSE p

\* A null std::unique_ptr<WordProb>, and the test for it.  A call through a
\* null pointer is undefined behaviour.
NULL == [null |-> TRUE]
IsNull(p) == p = NULL

\* context_map[word] on the map of pointers to WordProb objects: operator[]
\* makes an absent entry, and the entry it makes holds a null pointer.
ContextSubscript(cm, word) ==
    IF word \in DOMAIN cm THEN cm ELSE MapAssign(cm, word, NULL)

hasWord(cm, word) == word \in DOMAIN cm

hasBeforeWord(cm, word, before_word) ==
    IF ~hasWord(cm, word) THEN FALSE
    ELSE IF IsNull(cm[word]) THEN UNDEFINED
    ELSE WordProb_hasBeforeWord(cm[word], before_word)

hasAfterWord(cm, word, after_word) ==
    IF ~hasWord(cm, word) THEN FALSE
    ELSE IF IsNull(cm[word]) THEN UNDEFINED
    ELSE WordProb_hasAfterWord(cm[word], after_word)

addWord(cm, word) ==
    IF ~hasWord(cm, word) THEN MapAssign(cm, word, NewWordProb) ELSE cm

addBeforeWord(cm, word, before_word, value) ==
    LET cm2 == addWord(cm, word)
    IN  IF IsNull(cm2[word]) THEN UNDEFINED
        ELSE IF ~hasBeforeWord(cm2, word, before_word)
        THEN [ContextSubscript(cm2, word) EXCEPT
                 ![word] = WordProb_addBeforeWord(@, before_word, value)]
        ELSE cm2

addAfterWord(cm, word, after_word, value) ==
    LET cm2 == addWord(cm, word)
    IN  IF IsNull(cm2[word]) THEN UNDEFINED
        ELSE IF ~hasAfterWord(cm2, word, after_word)
        THEN [ContextSubscript(cm2, word) EXCEPT
                 ![word] = WordProb_addAfterWord(@, after_word, value)]
        ELSE cm2

getBeforeWordCount(cm, word, before_word) ==
    IF ~hasWord(cm, word) THEN U64_MAX
    ELSE IF IsNull(cm[word]) THEN UNDEFINED
    ELSE WordProb_getBeforeWordCount(cm[word], before_word)

getAfterWordCount(cm, word, after_word) ==
    IF ~hasWord(cm, word) THEN U64_MAX
    ELSE IF IsNull(cm[word]) THEN UNDEFINED
    ELSE WordProb_getAfterWordCount(cm[word], after_word)

\* Lines 169-172: the test, then context_map[word]->increaseBeforeWordCount.
\* Where the pointer under word is null, in the map as it was or as
\* operator[] has just made it, the call is undefined.
increaseBeforeWordCount(cm, word, before_word, value) ==
    IF hasWord(cm, word) /\ IsNull(cm[word]) THEN UNDEFINED
    ELSE IF IncreaseGuard(hasBeforeWord(cm, word, before_word))
    THEN LET m == ContextSubscript(cm, word)
         IN  IF IsNull(m[word]) THEN UNDEFINED
             ELSE [m EXCEPT ![word] = WordProb_increaseBeforeWordCount(@, before_word, value)]
    ELSE cm

\* Lines 185-188, as increaseBeforeWordCount.
increaseAfterWordCount(cm, word, after_word, value) ==
    IF hasWord(cm, word) /\ IsNull(cm[word]) THEN UNDEFINED
    ELSE IF IncreaseGuard(hasAfterWord(cm, word, after_word))
    THEN LET m == ContextSubscript(cm, word)
         IN  IF IsNull(m[word]) THEN UNDEFINED
             ELSE [m EXCEPT ![word] = WordProb_increaseAfterWordCount(@, after_word, value)]
    ELSE cm

---------------------------------------------------------------------------
(* Word-probability specification *)

\* The writes of a run.
MaxProbOps == 3

ProbWords == {<<CH_a>>, <<CH_b>>}
\* The counts given to add and increase: a small one and the largest one.
ProbValues == {1, U64_MAX}
Sides == {"before", "after"}

InitProb ==
    /\ InitEDIdle /\ InitBK /\ InitTrie /\ InitBuildIdle /\ InitWalkIdle
    /\ prob = NewWordProb /\ context_map = <<>>
    /\ probOp = [name |-> "none", on |-> "none", side |-> "none", word |-> <<>>, inner |-> <<>>, value |-> 0]
    /\ probRet = 0 /\ probCount = 0
    /\ InitCliIdle

\* A read leaves both objects as they are, so a run ends with its read; a
\* run works on the WordProb or on the WordContextAnalyzer, which share
\* nothing.
ProbOpen(on) ==
    probOp.name \notin {"has", "get", "hasWord", "undefined"} /\ probOp.on \in {"none", on}
CanWrite(on) == ProbOpen(on) /\ probCount < MaxProbOps

Op(name, on, side, word, inner, value) ==
    [name |-> name, on |-> on, side |-> side, word |-> word, inner |-> inner, value |-> value]

\* prob.addBeforeWord(word, value) / prob.addAfterWord(word, value)
ProbAdd(side, word, value) ==
    /\ CanWrite("WordProb")
    /\ prob' = IF side = "before" THEN WordProb_addBeforeWord(prob, word, value)
               ELSE WordProb_addAfterWord(prob, word, value)
    /\ probOp' = Op("add", "WordProb", side, <<>>, word, value)
    /\ probCount' = probCount + 1
    /\ UNCHANGED <<context_map, probRet, edVars, bkVars, trieVars, buildVars, walkVars, cliVars>>

\* prob.increaseBeforeWordCount(word, value) / prob.increaseAfterWordCount(word, value)
ProbIncrease(side, word, value) ==
    /\ CanWrite("WordProb")
    /\ prob' = IF side = "before" THEN WordProb_increaseBeforeWordCount(prob, word, value)
               ELSE WordProb_increaseAfterWordCount(prob, word, value)
    /\ probOp' = Op("increase", "WordProb", side, <<>>, word, value)
    /\ probCount' = probCount + 1
    /\ UNCHANGED <<context_map, probRet, edVars, bkVars, trieVars, buildVars, walkVars, cliVars>>

\* prob.hasBeforeWord(word) / prob.hasAfterWord(word)
ProbHas(side, word) ==
    /\ ProbOpen("WordProb")
    /\ probRet' = IF side = "before" THEN WordProb_hasBeforeWord(prob, word)
                  ELSE WordProb_hasAfterWord(prob, word)
    /\ probOp' = Op("has", "WordProb", side, <<>>, word, 0)
    /\ UNCHANGED <<prob, context_map, probCount, edVars, bkVars, trieVars, buildVars, walkVars, cliVars>>

\* prob.getBeforeWordCount(word) / prob.getAfterWordCount(word)
ProbGet(side, word) ==
    /\ ProbOpen("WordProb")
    /\ probRet' = IF side = "before" THEN WordProb_getBeforeWordCount(prob, word)
                  ELSE WordProb_getAfterWordCount(prob, word)
    /\ probOp' = Op("get", "WordProb", side, <<>>, word, 0)
    /\ UNCHANGED <<prob, context_map, probCount, edVars, bkVars, trieVars, buildVars, walkVars, cliVars>>

\* analyzer.addWord(word)
CtxAddWord(word) ==
    /\ CanWrite("WordContextAnalyzer")
    /\ context_map' = addWord(context_map, word)
    /\ probOp' = Op("addWord", "WordContextAnalyzer", "none", word, <<>>, 0)
    /\ probCount' = probCount + 1
    /\ UNCHANGED <<prob, probRet, edVars, bkVars, trieVars, buildVars, walkVars, cliVars>>

\* analyzer.addBeforeWord(word, inner, value) / analyzer.addAfterWord(word, inner, value)
CtxAdd(side, word, inner, value) ==
    /\ CanWrite("WordContextAnalyzer")
    /\ context_map' = IF side = "before" THEN addBeforeWord(context_map, word, inner, value)
                      ELSE addAfterWord(context_map, word, inner, value)
    /\ probOp' = Op("add", "WordContextAnalyzer", side, word, inner, value)
    /\ probCount' = probCount + 1
    /\ UNCHANGED <<prob, probRet, edVars, bkVars, trieVars, buildVars, walkVars, cliVars>>

\* analyzer.increaseBeforeWordCount(word, inner, value) /
\* analyzer.increaseAfterWordCount(word, inner, value)
CtxIncrease(side, word, inner, value) ==
    /\ CanWrite("WordContextAnalyzer")
    /\ LET present == IF side = "before" THEN hasBeforeWord(context_map, word, inner)
                      ELSE hasAfterWord(context_map, word, inner)
           target == ContextSubscript(context_map, word)
       IN  IF IncreaseGuard(present) /\ IsNull(target[word])
           THEN \* The call goes through a null pointer.  What the process does
                \* from here on is undefined, and the run is followed no
                \* further; the map is as operator[] has left it.
                /\ context_map' = target
                /\ probOp' = Op("undefined", "WordContextAnalyzer", side, word, inner, value)
           ELSE /\ context_map' =
                      IF side = "before"
                      THEN increaseBeforeWordCount(context_map, word, inner, value)
                      ELSE increaseAfterWordCount(context_map, word, inner, value)
                /\ probOp' = Op("increase", "WordContextAnalyzer", side, word, inner, value)
    /\ probCount' = probCount + 1
    /\ UNCHANGED <<prob, probRet, edVars, bkVars, trieVars, buildVars, walkVars, cliVars>>

\* analyzer.hasWord(word)
CtxHasWord(word) ==
    /\ ProbOpen("WordContextAnalyzer")
    /\ probRet' = hasWord(context_map, word)
    /\ probOp' = Op("hasWord", "WordContextAnalyzer", "none", word, <<>>, 0)
    /\ UNCHANGED <<prob, context_map, probCount, edVars, bkVars, trieVars, buildVars, walkVars, cliVars>>

\* analyzer.hasBeforeWord(word, inner) / analyzer.hasAfterWord(word, inner)
CtxHas(side, word, inner) ==
    /\ ProbOpen("WordContextAnalyzer")
    /\ probRet' = IF side = "before" THEN hasBeforeWord(context_map, word, inner)
                  ELSE hasAfterWord(context_map, word, inner)
    /\ probOp' = Op("has", "WordContextAnalyzer", side, word, inner, 0)
    /\ UNCHANGED <<prob, context_map, probCount, edVars, bkVars, trieVars, buildVars, walkVars, cliVars>>

\* analyzer.getBeforeWordCount(word, inner) / analyzer.getAfterWordCount(word, inner)
CtxGet(side, word, inner) ==
    /\ ProbOpen("WordContextAnalyzer")
    /\ probRet' = IF side = "before" THEN getBeforeWordCount(context_map, word, inner)
                  ELSE getAfterWordCount(context_map, word, inner)
    /\ probOp' = Op("get", "WordContextAnalyzer", side, word, inner, 0)
    /\ UNCHANGED <<prob, context_map, probCount, edVars, bkVars, trieVars, buildVars, walkVars, cliVars>>

NextProb ==
    \/ \E side \in Sides, word \in ProbWords, value \in ProbValues : ProbAdd(side, word, value)
    \/ \E side \in Sides, word \in ProbWords, value \in ProbValues : ProbIncrease(side, word, value)
    \/ \E side \in Sides, word \in ProbWords : ProbHas(side, word)
    \/ \E side \in Sides, word \in ProbWords : ProbGet(side, word)
    \/ \E word \in ProbWords : CtxAddWord(word)
    \/ \E side \in Sides, word \in ProbWords, inner \in ProbWords, value \in ProbValues :
          CtxAdd(side, word, inner, value)
    \/ \E side \in Sides, word \in ProbWords, inner \in ProbWords, value \in ProbValues :
          CtxIncrease(side, word, inner, value)
    \/ \E word \in ProbWords : CtxHasWord(word)
    \/ \E side \in Sides, word \in ProbWords, inner \in ProbWords : CtxHas(side, word, inner)
    \/ \E side \in Sides, word \in ProbWords, inner \in ProbWords : CtxGet(side, word, inner)

SpecProb == InitProb /\ [][NextProb]_vars

\* The other side of a WordProb.
OtherSide(side) == IF side = "before" THEN "after" ELSE "before"

\* The entries of one side of the WordProb kept for an outer word; none if
\* the outer word is absent.
Entries(cm, word, side) == IF word \in DOMAIN cm THEN cm[word][side] ELSE <<>>

\* m2 is m with the count of word set to value if word was absent, and m
\* itself if it was present.
InsertedOnly(m, m2, word, value) ==
    IF word \in DOMAIN m THEN m2 = m
    ELSE /\ DOMAIN m2 = DOMAIN m \cup {word}
         /\ m2[word] = value
         /\ \A u \in DOMAIN m : m2[u] = m[u]

\* C22: addBeforeWord / addAfterWord of WordProb and of WordContextAnalyzer
\* only insert: an absent entry gets the given count, a present entry keeps
\* its count; an add on one side changes no entry of the other side, and in
\* the analyzer no entry of another outer word.
C22_AddInsertOnly ==
    [][probOp'.name = "add" =>
          LET side == probOp'.side
              inner == probOp'.inner
              word == probOp'.word
          IN  IF probOp'.on = "WordProb"
              THEN /\ InsertedOnly(prob[side], prob'[side], inner, probOp'.value)
                   /\ prob'[OtherSide(side)] = prob[OtherSide(side)]
              ELSE /\ word \in DOMAIN context_map'
                   /\ InsertedOnly(Entries(context_map, word, side), context_map'[word][side],
                                   inner, probOp'.value)
                   /\ context_map'[word][OtherSide(side)] = Entries(context_map, word, OtherSide(side))
                   /\ DOMAIN context_map' = DOMAIN context_map \cup {word}
                   /\ \A u \in DOMAIN context_map : u # word => context_map'[u] = context_map[u]]_vars

\* C22 witness: an add with another count on an entry of the analyzer that
\* was present, for an outer word with an entry on the other side as well.
C22_Witness ==
    /\ probOp.name = "add" /\ probOp.on = "WordContextAnalyzer" /\ probCount = 3
    /\ hasBeforeWord(context_map, probOp.word, probOp.inner)
    /\ hasAfterWord(context_map, probOp.word, probOp.inner)
    /\ context_map[probOp.word][probOp.side][probOp.inner] # probOp.value

\* Whether the entry an operation of the analyzer names is there.
EntryPresent(cm, op) ==
    op.word \in DOMAIN cm /\ op.inner \in DOMAIN cm[op.word][op.side]

\* C23: in WordContextAnalyzer an increase on an absent outer word or an
\* absent inner word, and every has* and get*Count, leave hasWord and every
\* stored count as they were, for all words; only addWord, addBeforeWord and
\* addAfterWord make an outer entry.
C23_OnlyAddCreates ==
    [][probOp'.on = "WordContextAnalyzer" =>
          /\ (probOp'.name \in {"has", "hasWord", "get"}) => context_map' = context_map
          /\ (probOp'.name = "increase" /\ ~EntryPresent(context_map, probOp')) =>
                context_map' = context_map
          /\ DOMAIN context_map' # DOMAIN context_map => probOp'.name \in {"addWord", "add"}]_vars

\* C23 witness: an increase for an outer word the analyzer does not hold,
\* while it holds the inner word under another outer word.
C23_Witness ==
    /\ probOp.name = "increase" /\ probOp.on = "WordContextAnalyzer"
    /\ probOp.word \notin DOMAIN context_map
    /\ \E u \in DOMAIN context_map : probOp.inner \in DOMAIN context_map[u][probOp.side]

\* Whether the entry the last operation names is there, and its count.
Present ==
    IF probOp.on = "WordProb" THEN probOp.inner \in DOMAIN prob[probOp.side]
    ELSE EntryPresent(context_map, probOp)
StoredCount ==
    IF probOp.on = "WordProb" THEN prob[probOp.side][probOp.inner]
    ELSE context_map[probOp.word][probOp.side][probOp.inner]

\* C24, as stated: get*WordCount returns the sentinel 2^64 - 1 if and only if
\* the entry is absent; a present entry never reads as the sentinel.
C24_SentinelIffAbsent ==
    probOp.name = "get" => (probRet = U64_MAX <=> ~Present)

\* C24, amended: get*WordCount returns the sentinel if the entry is absent;
\* a present entry reads as its stored count, a value in 0..2^64 - 1, and so
\* reads as the sentinel exactly when its stored count is 2^64 - 1.
C24_SentinelIfAbsent ==
    probOp.name = "get" =>
        /\ ~Present => probRet = U64_MAX
        /\ Present => (probRet = StoredCount /\ StoredCount \in 0..U64_MAX)
        /\ probRet = U64_MAX <=> (~Present \/ StoredCount = U64_MAX)

\* C24 witness: a get on a present entry of the analyzer that holds the
\* largest count.
C24_Witness ==
    /\ probOp.name = "get" /\ probOp.on = "WordContextAnalyzer"
    /\ Present /\ probRet = U64_MAX


---------------------------------------------------------------------------
(* ArgParser, ArgParserEx and main of prepare_data *)


\* The list of valid arguments main passes to the parser (main.cpp:33-40):
\* is boolean, name, default value.
ValidArgs ==
    << [is_bool |-> TRUE,  name |-> "-h",             value |-> "false"],
       [is_bool |-> TRUE,  name |-> "--help",         value |-> "false"],
       [is_bool |-> FALSE, name |-> "-w",             value |-> ""],
       [is_bool |-> FALSE, name |-> "--wordlist",     value |-> ""],
       [is_bool |-> FALSE, name |-> "-t",             value |-> ""],
       [is_bool |-> FALSE, name |-> "--build-trie",   value |-> ""],
       [is_bool |-> FALSE, name |-> "-b",             value |-> ""],
       [is_bool |-> FALSE, name |-> "--build-bktree", value |-> ""] >>

\* The member args after ArgParser::ArgParser: the initialiser list names
\* ELEMENT_DOES_NOT_EXIST and argv only, so args is default-constructed and
\* the list given to the constructor is dropped.
ArgsMember(list) == <<>>

ELEMENT_DOES_NOT_EXIST == SIZE_MAX

\* The loop of getArgumentIndex from index i on (indices count from 0).
RECURSIVE IndexFrom(_, _, _)
IndexFrom(list, name, i) ==
    IF i >= Len(list) THEN ELEMENT_DOES_NOT_EXIST
    ELSE IF list[i + 1].name = name THEN i
    ELSE IndexFrom(list, name, i + 1)

getArgumentIndex(list, name) == IndexFrom(list, name, 0)

getArgumentValue(list, name) ==
    LET index == getArgumentIndex(list, name)
    IN  IF index # ELEMENT_DOES_NOT_EXIST THEN list[index + 1].value ELSE ""

\* args[index].setValue(value)
setValue(list, index, value) == [list EXCEPT ![index + 1].value = value]

Returns(list) == [outcome |-> "returns", args |-> list, what |-> ""]
Throws(list, what) == [outcome |-> "throws", args |-> list, what |-> what]
\* args[index] with index outside the vector.
Undefined(list) == [outcome |-> "undefined", args |-> list, what |-> ""]

\* The loop of ArgParserEx::parse (lines 62-87) from token i on.
RECURSIVE ParseLoop(_, _, _)
ParseLoop(list, tokens, i) ==
    LET count == Len(tokens)
    IN  IF i >= count THEN Returns(list)
        ELSE LET index == getArgumentIndex(list, tokens[i + 1])
             IN  IF index = ELEMENT_DOES_NOT_EXIST THEN Throws(list, "invalid arguments")
                 ELSE IF list[index + 1].is_bool
                 THEN ParseLoop(setValue(list, index, "true"), tokens, i + 1)
                 ELSE IF (i + 1 >= count) \/
                         getArgumentIndex(list, tokens[i + 2]) # ELEMENT_DOES_NOT_EXIST
                 THEN Throws(list, "invalid arguments")
                 ELSE ParseLoop(setValue(list, index, tokens[i + 2]), tokens, i + 2)

\* ArgParserEx::parse (lines 43-88).
parse(list, tokens) ==
    LET count == Len(tokens)
    IN  IF count > 0 /\ (tokens[1] = "-h" \/ tokens[1] = "--help")
        THEN LET index == getArgumentIndex(list, tokens[1])
             IN  IF index >= Len(list) THEN Undefined(list)
                 ELSE Returns(setValue(list, index, "true"))
        ELSE IF count < 4 THEN Throws(list, "missing required arguments")
        ELSE ParseLoop(list, tokens, 0)

\* What a run of main did when it returned; steps are the steps it took, in
\* the order it took them.
Exit(code, err, steps) ==
    LET Took(step) == \E i \in 1..Len(steps) : steps[i] = step
    IN  [exit |-> code, err |-> err, steps |-> steps,
         usage |-> Took("usage"), read |-> Took("read"),
         trieBuilt |-> Took("trieBuilt"), trieWritten |-> Took("trieWritten"),
         bkBuilt |-> Took("bkBuilt"), bkWritten |-> Took("bkWritten")]

\* main from the '-b' / '--build-bktree' block on (lines 142-170); steps are
\* the steps taken so far.  "bChecked" is the test of lines 150-155,
\* "bkBuilt" the call of buildBKTree in line 162, "bkWritten" its file.
BKTreeBlock(list, bkOpens, steps) ==
    LET short_arg_val == getArgumentValue(list, "-b")
        long_arg_val == getArgumentValue(list, "--build-bktree")
    IN  IF short_arg_val # "" \/ long_arg_val # ""
        THEN IF short_arg_val # "" /\ long_arg_val # ""
             THEN Exit(1, "both '-b' and '--build-bktree' are specified", steps \o <<"bChecked">>)
             ELSE IF ~bkOpens
             THEN Exit(1, "could not create/open file", steps \o <<"bChecked", "bkBuilt">>)
             ELSE Exit(0, "", steps \o <<"bChecked", "bkBuilt", "bkWritten">>)
        ELSE Exit(0, "", steps)

\* main from the '-t' / '--build-trie' block on (lines 113-140).  "tChecked"
\* is the test of lines 121-126, "trieBuilt" the call of buildTrie in line
\* 133, "trieWritten" its file.
TrieBlock(list, trieOpens, bkOpens, steps) ==
    LET short_arg_val == getArgumentValue(list, "-t")
        long_arg_val == getArgumentValue(list, "--build-trie")
    IN  IF short_arg_val # "" \/ long_arg_val # ""
        THEN IF short_arg_val # "" /\ long_arg_val # ""
             THEN Exit(1, "both '-t' and '--build-trie' are specified", steps \o <<"tChecked">>)
             ELSE IF ~trieOpens
             THEN Exit(1, "could not create/open file", steps \o <<"tChecked", "trieBuilt">>)
             ELSE BKTreeBlock(list, bkOpens, steps \o <<"tChecked", "trieBuilt", "trieWritten">>)
        ELSE BKTreeBlock(list, bkOpens, steps)

\* main after a parse that returned (lines 57-170).  "wChecked" is the two
\* tests of lines 83-96, "read" a readWordlist that returned.
AfterParse(list, readable, trieOpens, bkOpens) ==
    IF getArgumentValue(list, "-h") = "true" \/ getArgumentValue(list, "--help") = "true"
    THEN Exit(0, "", <<"usage">>)
    ELSE LET short_arg_val == getArgumentValue(list, "-w")
             long_arg_val == getArgumentValue(list, "--wordlist")
         IN  IF short_arg_val = "" /\ long_arg_val = ""
             THEN Exit(1, "missing a value for either '-w' or '--wordlist'", <<"wChecked">>)
             ELSE IF short_arg_val # "" /\ long_arg_val # ""
             THEN Exit(1, "both '-w' and '--wordlist' are specified", <<"wChecked">>)
             ELSE IF ~readable THEN Exit(1, "could not open file", <<"wChecked">>)
             ELSE TrieBlock(list, trieOpens, bkOpens, <<"wChecked", "read">>)

---------------------------------------------------------------------------
(* Command line specification *)

\* The groups of tokens a command line is made of.
MaxArgs == 4

\* The exit statuses of a run that was killed: SIGABRT and SIGSEGV.
CrashStatuses == {134, 139}

\* A command line is a sequence of groups: an option with a value, an option
\* with the empty string for value, an option alone, a token that is no
\* option.
Groups ==
    {<<"-w", "in">>, <<"--wordlist", "in">>, <<"-t", "out">>, <<"--build-trie", "out">>,
     <<"-b", "out">>, <<"--build-bktree", "out">>, <<"-t", "">>,
     <<"-h">>, <<"--help">>, <<"-w">>, <<"x">>}

RECURSIVE Flatten(_, _)
Flatten(groups, i) == IF i > Len(groups) THEN <<>> ELSE groups[i] \o Flatten(groups, i + 1)

CommandLines == {Flatten(g, 1) : g \in UNION {[1..n -> Groups] : n \in 0..MaxArgs}}

\* The word list file of the runs.
WordListFile == <<CH_a, CH_LF, CH_b, CH_LF>>

\* main up to the construction of arg_parser (lines 29-43).
InitCli ==
    /\ InitEDIdle /\ InitBK /\ InitTrie /\ InitWalkIdle /\ InitProbIdle
    /\ file = WordListFile /\ words = <<>> /\ stage = "constructed" /\ outputs = {}
    /\ argv \in CommandLines
    /\ args = ArgsMember(ValidArgs)
    /\ cliPc = "constructed" /\ exitCode = 0 /\ cliErr = "" /\ usageShown = FALSE
    /\ cliSteps = <<>>

\* main from the call of parse to its end (lines 45-170).  A parse that
\* indexes args outside the vector has undefined behaviour: the run is
\* killed.  The files open or they do not.  "parsed" is the call of parse
\* in line 48, the first step of every run.
Main(readable, trieOpens, bkOpens, status) ==
    /\ cliPc = "constructed"
    /\ LET parsed == parse(args, argv)
       IN  IF parsed.outcome = "undefined"
           THEN /\ cliPc' = "crashed" /\ exitCode' = status
                /\ cliSteps' = <<"parsed">>
                /\ UNCHANGED <<args, cliErr, usageShown, words, outputs, trie, inserted, bk>>
           ELSE IF parsed.outcome = "throws"
           THEN /\ cliPc' = "exited" /\ exitCode' = 1 /\ cliErr' = parsed.what
                /\ args' = parsed.args
                /\ cliSteps' = <<"parsed">>
                /\ UNCHANGED <<usageShown, words, outputs, trie, inserted, bk>>
           ELSE LET r == AfterParse(parsed.args, readable, trieOpens, bkOpens)
                    list == readWordlist(file, <<>>)
                IN  /\ cliPc' = "exited" /\ exitCode' = r.exit /\ cliErr' = r.err
                    /\ args' = parsed.args
                    /\ usageShown' = r.usage
                    /\ cliSteps' = <<"parsed">> \o r.steps
                    /\ trie' = IF r.trieBuilt THEN TrieInsertAll(NewTrie, list, 1) ELSE trie
                    /\ inserted' = IF r.trieBuilt THEN Elements(list) ELSE inserted
                    /\ \E shuffled \in Shuffles(list) :
                          /\ words' = IF r.bkBuilt THEN shuffled ELSE IF r.read THEN list ELSE words
                          /\ bk' = IF r.bkBuilt THEN BKInsertAll(EmptyTree, shuffled, 1) ELSE bk
                    /\ outputs' = (IF r.trieWritten THEN {"trie"} ELSE {})
                                     \cup (IF r.bkWritten THEN {"bktree"} ELSE {})
    /\ UNCHANGED <<argv, file, stage, edVars, walkVars, probVars,
                   bkCount, bkOp, bkWord, query, tolerance, results, stream, reloaded,
                   trieOp, trieWord, found, queryVars, wasStored>>

NextCli ==
    \E readable \in BOOLEAN, trieOpens \in BOOLEAN, bkOpens \in BOOLEAN, status \in CrashStatuses :
        Main(readable, trieOpens, bkOpens, status)

SpecCli == InitCli /\ [][NextCli]_vars

IsName(token) == \E k \in 1..Len(ValidArgs) : ValidArgs[k].name = token

\* Whether a token of the command line is one of the given options followed
\* by a non-empty value.
GivenWithValue(tokens, names) ==
    \E i \in 1..(Len(tokens) - 1) : tokens[i] \in names /\ tokens[i + 1] # ""

HelpRequested(tokens) == \E i \in 1..Len(tokens) : tokens[i] \in {"-h", "--help"}

\* The messages of the argument errors of parse and main.
ArgumentErrors ==
    {"missing required arguments", "invalid arguments",
     "missing a value for either '-w' or '--wordlist'",
     "both '-w' and '--wordlist' are specified",
     "both '-t' and '--build-trie' are specified",
     "both '-b' and '--build-bktree' are specified"}

ArgumentError == cliPc = "exited" /\ exitCode = 1 /\ cliErr \in ArgumentErrors

\* C25: a run without a help option and with neither a Trie output path nor
\* a BK-tree output path of non-empty value ends with an argument error and
\* exit code 1; so a run that ends with exit code 0 without showing the
\* usage has built at least one of the two outputs.  In SpecCli the formula
\* holds in every state, through parse alone: the parser's list is empty, parse
\* returns on no command line, no run ends with exit code 0, and the lines of
\* main the claim is about (113-170) are not reached.
C25_OutputRequired ==
    cliPc # "constructed" =>
        /\ (/\ ~HelpRequested(argv)
            /\ ~GivenWithValue(argv, {"-t", "--build-trie"})
            /\ ~GivenWithValue(argv, {"-b", "--build-bktree"})) => ArgumentError
        /\ (cliPc = "exited" /\ exitCode = 0 /\ ~usageShown) => outputs # {}

\* C26: every name of the list the parser was constructed with is
\* recognised: before parse getArgumentValue gives its default value, a
\* command line of options of the list with their values is not turned down
\* as 'invalid arguments', and a run with '-h' or '--help' as first argument
\* ends with the usage and exit code 0.
C26_ValidNamesRecognised ==
    /\ cliPc = "constructed" =>
          \A k \in 1..Len(ValidArgs) :
              /\ getArgumentIndex(args, ValidArgs[k].name) # ELEMENT_DOES_NOT_EXIST
              /\ getArgumentValue(args, ValidArgs[k].name) = ValidArgs[k].value
    /\ (/\ cliPc # "constructed"
        /\ Len(argv) >= 4 /\ Len(argv) % 2 = 0
        /\ \A i \in 1..Len(argv) :
              IF i % 2 = 1 THEN IsName(argv[i]) /\ argv[i] \notin {"-h", "--help"}
              ELSE ~IsName(argv[i])) => cliErr # "invalid arguments"
    /\ (cliPc # "constructed" /\ Len(argv) > 0 /\ argv[1] \in {"-h", "--help"}) =>
          (cliPc = "exited" /\ exitCode = 0 /\ usageShown)

\* The steps of main that test the arguments and the steps that build.
CheckSteps == {"parsed", "wChecked", "tChecked", "bChecked"}
BuildSteps == {"trieBuilt", "trieWritten", "bkBuilt", "bkWritten"}

\* Every test of the arguments a run made came before its first build step.
ChecksPrecedeBuilds ==
    \A i \in 1..Len(cliSteps) : \A j \in 1..Len(cliSteps) :
        (cliSteps[i] \in BuildSteps /\ cliSteps[j] \in CheckSteps) => j < i

\* C28: on a run that ends with an argument error no output file was
\* created or written before the exit with code 1: every test of the
\* arguments the run made came before its first build step.  In SpecCli the
\* formula holds in every state, through parse alone: every argument error
\* comes from parse and no run takes a build step.
C28_NoOutputBeforeArgumentError ==
    ArgumentError => (outputs = {} /\ ChecksPrecedeBuilds)

===========================================================================
